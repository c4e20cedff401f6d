----------------------------- MODULE AsyncTrading -----------------------------
(***************************************************************************)
(* The tick-fed trading loop: the WebSocket ingestor with its bounded queue *)
(* (infrastructure/async_streaming.py), the daemon that turns ticks into    *)
(* tasks (application/async_daemon.py), and the cycles that run in worker   *)
(* threads (application/cycle_executor.py) through preflight, kill switch   *)
(* and flatten (domain/services/).  Coroutines give way only where they     *)
(* await; threads interleave everywhere.                                    *)
(*                                                                          *)
(* Abstractions.  A tick is its symbol and its time of arrival; the wall    *)
(* clock may stand still between two ticks.  A cycle has one signal, to buy *)
(* one lot; a lot is named by the tick that led to it, or it was held       *)
(* before the run, where a market may already have several rows.  What else *)
(* preflight asks (audit chain, reconciliation, live confirmation,          *)
(* allowlist) does not change during a run: cleared.                        *)
(***************************************************************************)
EXTENDS Naturals, Sequences, FiniteSets

CONSTANTS
  Markets,      \* symbols that are wired to a market
  Unwired,      \* a symbol of the feed that is not
  Held,         \* lots that may be held before the run
  MaxTicks,     \* bound: ticks the feed delivers
  MaxQueue,     \* max_queue of the ingestor
  Workers,      \* threads of the loop's executor
  MaxFailures   \* max_consecutive_failures of the kill switch

ASSUME AsyncAssumption ==
  /\ Unwired \notin Markets /\ Held \cap Nat = {}
  /\ MaxTicks \in Nat /\ MaxQueue \in Nat
  /\ Workers \in Nat \ {0} /\ MaxFailures \in Nat \ {0}

VARIABLES
  pipe,       \* where run_forever is
  ingest,     \* where the ingestor's task is
  live,       \* _running of the ingestor
  clock,      \* time of the last arrival
  ticks,      \* history: the ticks that arrived, each is named by its index
  queue,      \* the ingestor's queue
  tasks,      \* handle_tick tasks that have not run yet
  lastSeen,   \* _last_seen
  cycle,      \* where the cycle of each tick is
  gaveUp,     \* cycles whose task the drain has cancelled
  cleared,    \* the checks of preflight other than the kill switch pass
  failures,   \* consecutive_failures of the kill switch
  tripped,    \* circuit_open of the kill switch
  bought,     \* lots whose orders the broker has filled, or will
  home,       \* the markets of the lots held before
  rows,       \* the position table: a row has the name of its first lot
  read,       \* the row, and what was in it, that each booking has read
  slipped,    \* history: lots that were lost on their way (see NothingLeftBehind)
  toClose,    \* the rows each flatten has still to close
  closed,     \* lots each flatten has closed
  reported,   \* lots that a result of flatten reports as failed
  latched,    \* _flattened is set
  inFlight,   \* history: lots whose orders were past the gate when a flatten began
  overlapped, \* history: a flatten began while another was under way
  unheard,    \* history: a flatten raised before it was latched
  stopped     \* history: stop() of the ingestor was called, or called and lost

feedVars == <<pipe, ingest, live, clock, ticks, queue, stopped>>
gateVars == <<cleared, home, failures, tripped>>
bookVars == <<bought, rows, read, slipped>>
flattenVars == <<toClose, closed, reported, latched, inFlight, overlapped, unheard>>
tradeVars == <<tasks, lastSeen, cycle, gaveUp, gateVars, bookVars, flattenVars>>
vars == <<feedVars, tradeVars>>

Ids == 1..MaxTicks
Lots == Ids \cup Held
Symbols == Markets \cup {Unwired}
Threaded == {"preflight", "verdict", "flatten", "gate", "send", "book", "write"}
CycleSteps == {"none", "queued", "done"} \cup Threaded

(* Types of the feed, the cycles and the books.                             *)
TypeOK ==
  /\ pipe \in {"idle", "polling", "closing", "draining", "over"}
  /\ ingest \in {"none", "created", "connecting", "reading", "backoff", "done"}
  /\ live \in BOOLEAN /\ clock \in Nat /\ stopped \in {"no", "asked", "lost"}
  /\ ticks \in Seq([symbol : Symbols, at : Nat]) /\ Len(ticks) <= MaxTicks
  /\ queue \in Seq(1..Len(ticks)) /\ tasks \in Seq(1..Len(ticks))
  /\ lastSeen \in [Markets -> Nat]
  /\ cycle \in [Ids -> CycleSteps] /\ gaveUp \subseteq Ids
  /\ home \in [Held -> Markets]
  /\ cleared \in BOOLEAN /\ failures \in Nat /\ tripped \in BOOLEAN
  /\ bought \subseteq Lots /\ slipped \subseteq Lots /\ rows \in [Lots -> SUBSET Lots]
  /\ read \in [Ids -> [row : Lots, lots : SUBSET Lots]]
  /\ toClose \in [Ids -> SUBSET (SUBSET Lots)] /\ closed \in [Ids -> SUBSET Lots]
  /\ reported \subseteq Lots /\ inFlight \subseteq Ids
  /\ latched \in BOOLEAN /\ overlapped \in BOOLEAN /\ unheard \in BOOLEAN

(* A booking that has read nothing, or found no row.                        *)
NoRow(t) == [row |-> t, lots |-> {}]

(* The ingestor, and the daemon that owns it, before anything is started.   *)
NewIngestor == ingest = "none" /\ live = FALSE /\ queue = <<>>
NewDaemon ==
  /\ pipe = "idle" /\ tasks = <<>> /\ gaveUp = {}
  /\ lastSeen = [m \in Markets |-> 0]
  /\ cycle = [t \in Ids |-> "none"]

Init ==
  /\ NewIngestor /\ NewDaemon
  /\ stopped = "no" /\ clock = 0 /\ ticks = <<>>
  /\ home \in [Held -> Markets]
  /\ cleared \in BOOLEAN /\ failures = 0 /\ tripped = FALSE
  /\ bought \in SUBSET Held /\ slipped = {}
  /\ rows = [b \in Lots |-> IF b \in bought THEN {b} ELSE {}]
  /\ read = [t \in Ids |-> NoRow(t)]
  /\ toClose = [t \in Ids |-> {}] /\ closed = [t \in Ids |-> {}]
  /\ reported = {} /\ inFlight = {}
  /\ latched = FALSE /\ overlapped = FALSE /\ unheard = FALSE

InThread(t) == cycle[t] \in Threaded
UnderWay == {t \in Ids : cycle[t] \in Threaded \cup {"queued"}}
GoTo(t, step) == cycle' = [cycle EXCEPT ![t] = step]

-----------------------------------------------------------------------------
(* The ingestor's task and the pipeline.                                    *)

(* run_forever, to the first sleep of run_pipeline: start() of daemon and   *)
(* ingestor, and the task of run() is created.                              *)
RunForever ==
  /\ pipe = "idle"
  /\ pipe' = "polling" /\ ingest' = "created" /\ live' = TRUE
  /\ UNCHANGED <<clock, ticks, queue, stopped, tradeVars>>

(* run() of the ingestor begins with a start() of its own.                  *)
IngestStarts ==
  /\ ingest = "created"
  /\ ingest' = "connecting" /\ live' = TRUE
  /\ UNCHANGED <<pipe, clock, ticks, queue, stopped, tradeVars>>

(* Where the task goes on: into step, or to the end of run() once stopped,  *)
(* which clears _running.                                                   *)
IngestGoesTo(step) ==
  ingest' = (IF live THEN step ELSE "done")

(* connect() returns a socket, or raises and the task backs off.            *)
Connect ==
  /\ ingest = "connecting"
  /\ \E step \in {"reading", "backoff"} : IngestGoesTo(step)
  /\ UNCHANGED <<pipe, live, clock, ticks, queue, stopped, tradeVars>>

(* recv() returns a valid frame: _put stamps it and queues it, or drops it  *)
(* when the queue is full.  A frame that came in before a stop() is still   *)
(* put; then the reader ends.                                               *)
Receive(s) ==
  /\ ingest = "reading" /\ Len(ticks) < MaxTicks
  /\ clock' \in {clock, clock + 1}
  /\ ticks' = Append(ticks, [symbol |-> s, at |-> clock'])
  /\ queue' = IF Len(queue) < MaxQueue THEN Append(queue, Len(ticks) + 1) ELSE queue
  /\ IngestGoesTo("reading")
  /\ UNCHANGED <<pipe, live, stopped, tradeVars>>

(* The socket ends; stop() closes it.                                       *)
SocketEnds ==
  /\ ingest = "reading"
  /\ IngestGoesTo("backoff")
  /\ UNCHANGED <<pipe, live, clock, ticks, queue, stopped, tradeVars>>

(* Mutant: a backoff that sleeps and connects again whatever was asked.     *)
BackoffIgnoresStop ==
  /\ ingest = "backoff"
  /\ ingest' = "connecting"
  /\ live' = TRUE
  /\ UNCHANGED <<pipe, clock, ticks, queue, stopped, tradeVars>>

(* _backoff() ends by its timeout or by the stop event.                     *)
BackoffEnds ==
  /\ ingest = "backoff"
  /\ IngestGoesTo("connecting")
  /\ UNCHANGED <<pipe, live, clock, ticks, queue, stopped, tradeVars>>

(* stop() of the ingestor.  Before run() has begun it is forgotten.         *)
Stop ==
  /\ pipe \in {"polling", "closing"} /\ stopped # "asked"
  /\ live' = FALSE
  /\ stopped' = IF ingest = "created" THEN "lost" ELSE "asked"
  /\ UNCHANGED <<pipe, ingest, clock, ticks, queue, tradeVars>>

(* The task that awaits run_forever is cancelled, and with it the           *)
(* ingestor's; finally stops the ingestor.                                  *)
Cancel ==
  /\ pipe \in {"polling", "closing"}
  /\ pipe' = "closing" /\ ingest' = "done" /\ live' = FALSE /\ stopped' = "asked"
  /\ UNCHANGED <<clock, ticks, queue, tradeVars>>

(* drain(): every tick of the queue becomes a task (on_tick).               *)
Poll ==
  /\ pipe = "polling" /\ live /\ queue # <<>>
  /\ tasks' = tasks \o queue
  /\ queue' = <<>>
  /\ UNCHANGED <<pipe, ingest, live, clock, ticks, stopped, lastSeen, cycle, gaveUp, gateVars, bookVars, flattenVars>>

LeaveLoop ==
  /\ pipe = "polling" /\ ~live
  /\ pipe' = "closing"
  /\ UNCHANGED <<ingest, live, clock, ticks, queue, stopped, tradeVars>>

(* The task group ends with the ingestor's task; run_forever stops the      *)
(* daemon and drains the tasks there are.                                   *)
BeginDrain ==
  /\ pipe = "closing" /\ ingest = "done"
  /\ pipe' = "draining" /\ live' = FALSE
  /\ UNCHANGED <<ingest, clock, ticks, queue, stopped, tradeVars>>

Drained ==
  /\ pipe = "draining" /\ tasks = <<>> /\ UnderWay = {}
  /\ pipe' = "over"
  /\ UNCHANGED <<ingest, live, clock, ticks, queue, stopped, tradeVars>>

(* shutdown_timeout: what has not begun is cancelled; a cycle that runs in  *)
(* its thread is given up, and runs on.                                     *)
DrainTimesOut ==
  /\ pipe = "draining" /\ (tasks # <<>> \/ UnderWay # {})
  /\ pipe' = "over"
  /\ tasks' = <<>>
  /\ gaveUp' = gaveUp \cup {t \in Ids : InThread(t)}
  /\ cycle' = [t \in Ids |-> IF cycle[t] = "queued" THEN "done" ELSE cycle[t]]
  /\ UNCHANGED <<ingest, live, clock, ticks, queue, stopped, lastSeen, gateVars, bookVars, flattenVars>>

-----------------------------------------------------------------------------
(* handle_tick, up to its await, and the cycle in its thread.               *)

(* The tick at the head is for a market, and later than what was seen.      *)
FreshTick(t) ==
  LET s == ticks[t].symbol IN s \in Markets /\ ticks[t].at > lastSeen[s]

(* An unwired symbol, and a stale or repeated tick.                         *)
IgnoreTick ==
  /\ tasks # <<>> /\ ~FreshTick(Head(tasks))
  /\ tasks' = Tail(tasks)
  /\ UNCHANGED <<feedVars, lastSeen, cycle, gaveUp, gateVars, bookVars, flattenVars>>

(* A fresh tick: the brain blocks it, or to_thread takes its cycle.         *)
HandleTick ==
  /\ tasks # <<>> /\ FreshTick(Head(tasks))
  /\ LET t == Head(tasks) IN
       /\ cycle[t] = "none"
       /\ lastSeen' = [lastSeen EXCEPT ![ticks[t].symbol] = ticks[t].at]
       /\ \E step \in {"queued", "done"} : GoTo(t, step)
  /\ tasks' = Tail(tasks)
  /\ UNCHANGED <<feedVars, gaveUp, gateVars, bookVars, flattenVars>>

(* A worker thread takes the cycle; run() publishes and analyses.           *)
BeginCycle(t) ==
  /\ cycle[t] = "queued"
  /\ Cardinality({u \in Ids : InThread(u)}) < Workers
  /\ GoTo(t, "preflight")
  /\ UNCHANGED <<feedVars, tasks, lastSeen, gaveUp, gateVars, bookVars, flattenVars>>

(* KillSwitch.can_trade refuses.                                            *)
SwitchBlocks == tripped \/ failures >= MaxFailures

(* PreflightService.check.                                                  *)
PreflightPasses == cleared /\ ~SwitchBlocks

(* No signal, a data gap, a preflight that fails, a sizing that refuses, or *)
(* an exception: the cycle ends without an order.                           *)
EndCycle(t) ==
  /\ cycle[t] \in {"preflight", "verdict", "gate"}
  /\ GoTo(t, "done")
  /\ UNCHANGED <<feedVars, tasks, lastSeen, gaveUp, gateVars, bookVars, flattenVars>>

Preflight(t) ==
  /\ cycle[t] = "preflight" /\ PreflightPasses
  /\ GoTo(t, "verdict")
  /\ UNCHANGED <<feedVars, tasks, lastSeen, gaveUp, gateVars, bookVars, flattenVars>>

(* RiskService.can_trade allows.                                            *)
MayTrade(t) ==
  /\ cycle[t] = "verdict" /\ ~SwitchBlocks
  /\ GoTo(t, "gate")
  /\ UNCHANGED <<feedVars, tasks, lastSeen, gaveUp, gateVars, bookVars, flattenVars>>

(* The open positions of the portfolio.                                     *)
OpenRows == {rows[b] : b \in Lots} \ {{}}

(* Orders that are past the gate.                                           *)
PastGate == {u \in Ids : cycle[u] \in {"send", "book", "write"}}

(* Mutant: the latch is not looked at.                                      *)
BeginFlattenAlways(t) ==
  /\ cycle[t] = "verdict" /\ tripped
  /\ toClose' = [toClose EXCEPT ![t] = OpenRows]
  /\ inFlight' = inFlight \cup PastGate
  /\ overlapped' = (overlapped \/ \E u \in Ids : cycle[u] = "flatten")
  /\ GoTo(t, "flatten")
  /\ UNCHANGED <<feedVars, tasks, lastSeen, gaveUp, gateVars, bookVars, closed, reported, latched, unheard>>

(* The kill switch tripped after preflight: flatten() reads the latch and   *)
(* the open positions.                                                      *)
BeginFlatten(t) ==
  /\ cycle[t] = "verdict" /\ tripped /\ ~latched
  /\ toClose' = [toClose EXCEPT ![t] = OpenRows]
  /\ inFlight' = inFlight \cup PastGate
  /\ overlapped' = (overlapped \/ \E u \in Ids : cycle[u] = "flatten")
  /\ GoTo(t, "flatten")
  /\ UNCHANGED <<feedVars, tasks, lastSeen, gaveUp, gateVars, bookVars, closed, reported, latched, unheard>>

MarketOf(b) == IF b \in Ids THEN ticks[b].symbol ELSE home[b]
RowsOf(m, lots) == {row \in lots : \A b \in row : MarketOf(b) = m}

(* The rows of one market go to the broker under one key, so that one of    *)
(* them is closed, in full or in part, and for each other one that order is *)
(* told again as its own, or the broker raises.                             *)
CloseMarket(t, m) ==
  /\ cycle[t] = "flatten"
  /\ \E row \in RowsOf(m, toClose[t]) :
       LET others == RowsOf(m, toClose[t]) \ {row} IN
       \E rest \in {{}, row}, told \in SUBSET others :
         /\ closed' = [closed EXCEPT ![t] = @ \cup row]
         /\ slipped' = slipped \cup rest \cup UNION told
         /\ reported' = reported \cup UNION (others \ told)
  /\ toClose' = [toClose EXCEPT ![t] = @ \ RowsOf(m, @)]
  /\ UNCHANGED <<feedVars, tasks, lastSeen, cycle, gaveUp, gateVars, bought, rows, read>>
  /\ UNCHANGED <<latched, inFlight, overlapped, unheard>>

(* The broker raises, or does not fill.                                     *)
CloseFails(t, m) ==
  /\ cycle[t] = "flatten" /\ RowsOf(m, toClose[t]) # {}
  /\ toClose' = [toClose EXCEPT ![t] = @ \ RowsOf(m, @)]
  /\ reported' = reported \cup UNION RowsOf(m, toClose[t])
  /\ UNCHANGED <<feedVars, tasks, lastSeen, cycle, gaveUp, gateVars, bookVars>>
  /\ UNCHANGED <<closed, latched, inFlight, overlapped, unheard>>

(* The result is paged and latched, failed closes included.  The portfolio  *)
(* keeps its positions.                                                     *)
EndFlatten(t) ==
  /\ cycle[t] = "flatten" /\ toClose[t] = {}
  /\ latched' = TRUE
  /\ GoTo(t, "done")
  /\ UNCHANGED <<feedVars, tasks, lastSeen, gaveUp, gateVars, bookVars, toClose, closed, reported, inFlight, overlapped, unheard>>

(* The price of a position, the audit record of a close, or in the end the  *)
(* page raises: the latch is not set, and the rows that are left are not    *)
(* tried.                                                                   *)
FlattenUnheard(t) ==
  /\ cycle[t] = "flatten"
  /\ unheard' = TRUE
  /\ toClose' = [toClose EXCEPT ![t] = {}]
  /\ GoTo(t, "done")
  /\ UNCHANGED <<feedVars, tasks, lastSeen, gaveUp, gateVars, bookVars, closed, reported, latched, inFlight, overlapped>>

(* Mutant: the order is not authorised again after the position was sized.  *)
AuthorizeOnce(t) ==
  /\ cycle[t] = "gate"
  /\ GoTo(t, "send")
  /\ UNCHANGED <<feedVars, tasks, lastSeen, gaveUp, gateVars, bookVars, flattenVars>>

(* The second preflight and authorize_order.                                *)
Authorize(t) ==
  /\ cycle[t] = "gate" /\ PreflightPasses
  /\ GoTo(t, "send")
  /\ UNCHANGED <<feedVars, tasks, lastSeen, gaveUp, gateVars, bookVars, flattenVars>>

(* place_market_order, filled, in full or in part: what is missing may      *)
(* still be filled, and slips.                                              *)
OrderFilled(t) ==
  /\ cycle[t] = "send"
  /\ bought' = bought \cup {t}
  /\ slipped' \in {slipped, slipped \cup {t}}
  /\ GoTo(t, "book")
  /\ UNCHANGED <<feedVars, tasks, lastSeen, gaveUp, gateVars, rows, read, flattenVars>>

(* The broker has no order, or it has one that nobody will book: it slips.  *)
NotBooked(t) ==
  \E lot \in {{}, {t}} : bought' = bought \cup lot /\ slipped' = slipped \cup lot

(* Not filled (it may be pending): record_failure, which trips the switch   *)
(* at its limit.                                                            *)
OrderNotFilled(t) ==
  /\ cycle[t] = "send"
  /\ NotBooked(t)
  /\ failures' = failures + 1
  /\ tripped' = (tripped \/ failures + 1 >= MaxFailures)
  /\ GoTo(t, "done")
  /\ UNCHANGED <<feedVars, tasks, lastSeen, gaveUp, cleared, home, rows, read, flattenVars>>

(* An exception of the broker: contained, or ended as a panic of the cycle. *)
OrderRaises(t) ==
  /\ cycle[t] = "send"
  /\ NotBooked(t)
  /\ GoTo(t, "done")
  /\ UNCHANGED <<feedVars, tasks, lastSeen, gaveUp, gateVars, rows, read, flattenVars>>

(* The trade is stored, and fill_trade reads a row of its market, or none.  *)
ReadRow(t) ==
  /\ cycle[t] = "book"
  /\ LET its == {b \in Lots : rows[b] # {} /\ MarketOf(b) = MarketOf(t)} IN
       \/ its = {} /\ read' = [read EXCEPT ![t] = NoRow(t)]
       \/ \E b \in its : read' = [read EXCEPT ![t] = [row |-> b, lots |-> rows[b]]]
  /\ GoTo(t, "write")
  /\ UNCHANGED <<feedVars, tasks, lastSeen, gaveUp, gateVars, bought, rows, slipped, flattenVars>>

(* It writes what it read and its own lot; lots that another cycle wrote    *)
(* meanwhile slip.  record_success is called unless what is recorded before *)
(* it raises.                                                               *)
WriteRow(t) ==
  /\ cycle[t] = "write"
  /\ LET at == read[t].row IN
       /\ rows' = [rows EXCEPT ![at] = read[t].lots \cup {t}]
       /\ slipped' = slipped \cup (rows[at] \ read[t].lots)
  /\ failures' \in {0, failures}
  /\ GoTo(t, "done") /\ read' = [read EXCEPT ![t] = NoRow(t)]
  /\ UNCHANGED <<feedVars, tasks, lastSeen, gaveUp, cleared, home, tripped, bought, flattenVars>>

(* A write of the booking raises; the cycle takes it for an error of its    *)
(* signal, or panics, and nobody books the lot.                             *)
BookFails(t) ==
  /\ cycle[t] \in {"book", "write"}
  /\ slipped' = slipped \cup {t}
  /\ GoTo(t, "done") /\ read' = [read EXCEPT ![t] = NoRow(t)]
  /\ UNCHANGED <<feedVars, tasks, lastSeen, gaveUp, gateVars, bought, rows, flattenVars>>

-----------------------------------------------------------------------------
CycleStep(t) ==
  \/ BeginCycle(t) \/ EndCycle(t) \/ Preflight(t) \/ MayTrade(t) \/ Authorize(t)
  \/ OrderFilled(t) \/ OrderNotFilled(t) \/ OrderRaises(t)
  \/ ReadRow(t) \/ WriteRow(t) \/ BookFails(t)
  \/ BeginFlatten(t) \/ EndFlatten(t) \/ FlattenUnheard(t)
  \/ \E m \in Markets : CloseMarket(t, m) \/ CloseFails(t, m)

Next ==
  \/ RunForever \/ IngestStarts \/ Connect \/ SocketEnds \/ BackoffEnds \/ Stop \/ Cancel
  \/ \E s \in Symbols : Receive(s)
  \/ Poll \/ LeaveLoop \/ BeginDrain \/ Drained \/ DrainTimesOut
  \/ IgnoreTick \/ HandleTick
  \/ \E t \in Ids : CycleStep(t)

Spec == Init /\ [][Next]_vars

(* The loop runs its ready tasks and timers; a closed socket ends its recv. *)
FairSpec ==
  /\ Spec
  /\ WF_vars(IngestStarts) /\ WF_vars(Connect) /\ WF_vars(BackoffEnds)
  /\ WF_vars(~live /\ SocketEnds)
  /\ WF_vars(Poll) /\ WF_vars(LeaveLoop) /\ WF_vars(BeginDrain)
  /\ WF_vars(Drained \/ DrainTimesOut)
  /\ WF_vars(IgnoreTick \/ HandleTick)

-----------------------------------------------------------------------------
(* No lot is closed at the broker by two flattens (the second would open a  *)
(* short position), unless they overlapped, or the first raised before it   *)
(* was latched.                                                             *)
ClosedOnce ==
  overlapped \/ unheard \/ \A t, u \in Ids : t # u => closed[t] \cap closed[u] = {}

(* Once a flatten is over, whatever the broker still holds is in what it    *)
(* reported as failed, or comes from orders that were past the gate when it *)
(* began (the kill switch lets nothing new through to be left behind), or   *)
(* slipped: an order that was pending or whose answer was lost, a lot whose *)
(* booking raised or was written over by another cycle of its market, what  *)
(* a partial fill left of an order or of a close (flatten counts it as      *)
(* closed), and a second row of a market, which flatten takes for closed    *)
(* with the first one's order.                                              *)
NothingLeftBehind ==
  latched => \A b \in bought : b \in reported \cup inFlight \cup slipped \/ \E t \in Ids : b \in closed[t]

(* After run_forever has returned, only a cycle that its drain gave up in   *)
(* its thread still brings an order to the broker.                          *)
LateOrdersWereGivenUp ==
  [][pipe = "over" => bought' \ bought \subseteq gaveUp]_vars

(* A stop() that is not lost to the start() of run() ends run_forever, even *)
(* in a backoff and with cycles that never return.                          *)
StopEnds == stopped = "asked" ~> pipe = "over"
=============================================================================
