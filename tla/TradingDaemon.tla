---------------------------- MODULE TradingDaemon ----------------------------
(***************************************************************************)
(* The trading daemon in LIVE mode (application/daemon_controller.py and    *)
(* cycle_executor.py): its one thread reconciles the books with the broker, *)
(* opens or closes the order gate by the result, runs the cycles, places    *)
(* orders and books the fills, in four separate writes.  The broker fills,  *)
(* cancels and loses requests meanwhile; another process (the API, whose    *)
(* retail orders run on its own paper broker) writes to the same books; the *)
(* daemon may die at any point and is restarted.                            *)
(*                                                                          *)
(* Abstractions.  One market, one price; a position is the lots it has of   *)
(* each order, of which the reconciliation compares the sum.  A fill is     *)
(* none, one (partial) or Full lots; orders are buys.  Signals, sizing      *)
(* and the limits of authorize_order are the choice to place an order or    *)
(* not.  The age of the last clean reconciliation is one of never, recent   *)
(* and old (more than _STALE_THRESHOLD_SECONDS).  Leadership and signals    *)
(* are in Failover, the submission's retries and replays in OrderSubmission.*)
(***************************************************************************)
EXTENDS Naturals, FiniteSets, FiniteSetsExt

CONSTANTS
  Orders,        \* orders placed by anyone, each once
  Foreign,       \* those of them that another process places
  NoOrder,       \* "no order in hand"
  MaxFailures,   \* max_consecutive_failures of the KillSwitch
  MaxStarts      \* bound: starts of the daemon process explored

ASSUME DaemonAssumption ==
  /\ IsFiniteSet(Orders)
  /\ Foreign \subseteq Orders
  /\ NoOrder \notin Orders
  /\ MaxFailures \in Nat \ {0}
  /\ MaxStarts \in Nat

Full == 2
Book == [Orders -> 0..Full]
Flat == [o \in Orders |-> 0]

VARIABLES
  trade,     \* trades table: status of the order's row
  position,  \* positions table: the lots in the row get_by_market finds
  intents,   \* order journal: intents that were never confirmed
  wire,      \* requests the broker has not processed
  lots,      \* external: what the broker has filled of each order
  working,   \* external: the broker's open orders
  pc,        \* where the daemon's thread is
  hand,      \* the order it is placing, its fill and the position row it read
  snap,      \* what the reconciliation has read
  gate,      \* _startup_reconciled, i.e. can_accept_orders
  clean,     \* age of _reconciled_at
  failures,  \* KillSwitch.consecutive_failures, saturating
  tripped,   \* KillSwitch.circuit_open
  hook,      \* is the fatal handler installed as sys.excepthook
  starts,    \* number of starts so far
  drifted,   \* history: drift when the last reconciliation began, unchanged since
  blind,     \* history: the last reconciliation did not see the local books
  excused,   \* history: something that leaves a drift behind has happened
  ended      \* history: how the last run of the daemon ended

books == <<trade, position, intents>>
account == <<wire, lots, working>>
switch == <<failures, tripped>>
past == <<drifted, blind, excused, ended>>
vars == <<books, account, pc, hand, snap, gate, clean, switch, hook, starts, past>>

ReconcileSteps == {"positions", "orders", "broker", "judge"}
BookSteps == {"open", "submit", "fill", "read", "write"}
Steps == {"down", "loop", "cycles", "send", "await", "unwind"}
           \cup ReconcileSteps \cup BookSteps
Statuses == {"none", "pending", "submitted", "filled"}

EmptyHand == [order |-> NoOrder, got |-> 0, row |-> Flat]
EmptySnap == [position |-> Flat, orders |-> {}, broker |-> Flat]

(* Types of the books, the broker's account and the daemon.                 *)
TypeOK ==
  /\ trade \in [Orders -> Statuses]
  /\ position \in Book /\ lots \in Book
  /\ intents \subseteq Orders /\ wire \subseteq Orders /\ working \subseteq Orders
  /\ pc \in Steps
  /\ hand \in [order : Orders \cup {NoOrder}, got : 0..Full, row : Book]
  /\ snap \in [position : Book, orders : SUBSET Orders, broker : Book]
  /\ gate \in BOOLEAN /\ tripped \in BOOLEAN /\ hook \in BOOLEAN
  /\ clean \in {"never", "recent", "old"}
  /\ failures \in 0..MaxFailures
  /\ starts \in 0..MaxStarts
  /\ drifted \in BOOLEAN /\ blind \in BOOLEAN /\ excused \in BOOLEAN
  /\ ended \in {"not", "crashed", "frozen", "exposed"}

Init ==
  /\ trade = [o \in Orders |-> "none"]
  /\ position = Flat /\ lots = Flat
  /\ intents = {} /\ wire = {} /\ working = {}
  /\ pc = "down" /\ hand = EmptyHand /\ snap = EmptySnap
  /\ gate = FALSE /\ clean = "never"
  /\ failures = 0 /\ tripped = FALSE
  /\ hook = FALSE /\ starts = 0
  /\ drifted = FALSE /\ blind = FALSE /\ excused = FALSE /\ ended = "not"

-----------------------------------------------------------------------------
(* trade_repo.get_open, of the trades with an external order id.            *)
LocalOrders == {o \in Orders : trade[o] = "submitted"}

(* The quantity of a position.                                              *)
Held(book) == MapThenSumSet(LAMBDA o : book[o], Orders)

(* The books and the broker's account disagree.                             *)
Drift == Held(position) # Held(lots) \/ LocalOrders # working

GoTo(step) == pc' = step

FailuresAfter(n) == IF failures + n < MaxFailures THEN failures + n ELSE MaxFailures

(* KillSwitch.record_failure, n times in a row.                             *)
RecordFailures(n) ==
  /\ failures' = FailuresAfter(n)
  /\ tripped' = (tripped \/ (n > 0 /\ FailuresAfter(n) = MaxFailures))

(* KillSwitch.record_success.                                               *)
RecordSuccess == failures' = 0 /\ UNCHANGED tripped

(* KillSwitch.can_trade.                                                    *)
CanTrade == ~tripped /\ failures < MaxFailures

-----------------------------------------------------------------------------
(* A process starts: its gate, kill switch and hook are new, the books and  *)
(* the broker's account are as the last one left them.                      *)
Start ==
  /\ pc = "down"
  /\ starts < MaxStarts
  /\ starts' = starts + 1
  /\ GoTo("positions")
  /\ gate' = FALSE /\ clean' = "never" /\ failures' = 0 /\ tripped' = FALSE
  /\ hook' = FALSE /\ drifted' = FALSE /\ blind' = FALSE /\ ended' = "not"
  /\ UNCHANGED <<books, account, hand, snap, excused>>

(* _fetch_local_state, first the open positions ...                         *)
ReadLocalPositions ==
  /\ pc = "positions"
  /\ snap' = [EmptySnap EXCEPT !.position = position]
  /\ drifted' = Drift
  /\ blind' = FALSE
  /\ GoTo("orders")
  /\ UNCHANGED <<books, account, hand, gate, clean, switch, hook, starts, excused, ended>>

(* ... then the open trades ...                                             *)
ReadLocalOrders ==
  /\ pc = "orders"
  /\ snap' = [snap EXCEPT !.orders = LocalOrders]
  /\ GoTo("broker")
  /\ UNCHANGED <<books, account, hand, gate, clean, switch, hook, starts, past>>

(* ... and if either read raises, nothing: (None, None).                    *)
LocalUnreadable ==
  /\ pc \in {"positions", "orders"}
  /\ snap' = EmptySnap
  /\ drifted' = Drift
  /\ blind' = TRUE
  /\ GoTo("broker")
  /\ UNCHANGED <<books, account, hand, gate, clean, switch, hook, starts, excused, ended>>

(* reconcile: broker.get_positions ...                                      *)
ReadBrokerPositions ==
  /\ pc = "broker"
  /\ snap' = [snap EXCEPT !.broker = lots]
  /\ GoTo("judge")
  /\ UNCHANGED <<books, account, hand, gate, clean, switch, hook, starts, past>>

(* After the startup reconciliation, whatever it found, start() and the     *)
(* installation of the fatal handler; after a periodic one, the sleep.      *)
Reconciled == GoTo("loop") /\ hook' = TRUE

(* Either broker read fails: the gate closes, and the handler counts one    *)
(* failure.                                                                 *)
BrokerUnreadable ==
  /\ pc \in {"broker", "judge"}
  /\ gate' = FALSE
  /\ RecordFailures(1)
  /\ Reconciled
  /\ UNCHANGED <<books, account, hand, snap, clean, starts, past>>

(* The severe mismatches of a reconciliation: the position, every order     *)
(* only one side has, a stale last reconciliation.  _journal_pending never  *)
(* returns an intent, as the controller has no _broker.                     *)
Difference(a, b) == (a \ b) \cup (b \ a)
PositionMismatches == IF Held(snap.broker) # Held(snap.position) THEN 1 ELSE 0
StaleMismatches == IF clean = "old" THEN 1 ELSE 0

(* Mutant: the open orders are not compared.                                *)
MismatchesOfPositions(openOrders) == PositionMismatches + StaleMismatches

Mismatches(openOrders) ==
  Cardinality(Difference(openOrders, snap.orders)) + PositionMismatches + StaleMismatches

(* Mutant: the gate is the one-way latch it was before B-3.                 *)
JudgeLatched ==
  /\ pc = "judge"
  /\ gate' = (gate \/ Mismatches(working) = 0)
  /\ clean' = IF Mismatches(working) = 0 THEN "recent" ELSE clean
  /\ RecordFailures(Mismatches(working))
  /\ Reconciled
  /\ UNCHANGED <<books, account, hand, snap, starts, past>>

(* broker.get_open_orders and the verdict; _handle_reconciliation_result    *)
(* counts a failure for each severe mismatch.                               *)
Judge ==
  /\ pc = "judge"
  /\ gate' = (Mismatches(working) = 0)
  /\ clean' = IF gate' THEN "recent" ELSE clean
  /\ RecordFailures(Mismatches(working))
  /\ Reconciled
  /\ UNCHANGED <<books, account, hand, snap, starts, past>>

(* 300 s pass since the last clean reconciliation.                          *)
Age ==
  /\ clean = "recent"
  /\ clean' = "old"
  /\ UNCHANGED <<books, account, pc, hand, snap, gate, switch, hook, starts, past>>

-----------------------------------------------------------------------------
(* Loop top with the gate open: the cycles.  With the gate closed the loop  *)
(* sleeps and comes back here, without reconciling.                         *)
BeginCycles ==
  /\ pc = "loop"
  /\ gate
  /\ GoTo("cycles")
  /\ UNCHANGED <<books, account, hand, snap, gate, clean, switch, hook, starts, past>>

(* The cycles are over: the periodic reconciliation.                        *)
EndCycles ==
  /\ pc = "cycles"
  /\ GoTo("positions")
  /\ UNCHANGED <<books, account, hand, snap, gate, clean, switch, hook, starts, past>>

(* Order ids are drawn once: nobody knows this one yet.                     *)
Fresh(o) == trade[o] = "none" /\ lots[o] = 0 /\ o \notin intents \cup wire \cup working

(* A signal passes preflight, can_trade and authorize_order; the journal    *)
(* records the intent.                                                      *)
PlaceOrder(o) ==
  /\ pc = "cycles"
  /\ gate /\ CanTrade
  /\ Fresh(o)
  /\ hand' = [EmptyHand EXCEPT !.order = o]
  /\ intents' = intents \cup {o}
  /\ GoTo("send")
  /\ UNCHANGED <<trade, position, account, snap, gate, clean, switch, hook, starts, past>>

(* The journal's update to confirmed, for whatever FillResult came back.    *)
Confirm == intents' = intents \ {hand.order}

(* The order is dropped: the cycle goes on with the next signal.            *)
Drop == GoTo("cycles") /\ hand' = EmptyHand

(* The stack refuses the order (guardrail): a rejected FillResult.          *)
Refuse ==
  /\ pc = "send"
  /\ Confirm
  /\ RecordFailures(1)
  /\ Drop
  /\ UNCHANGED <<trade, position, account, snap, gate, clean, hook, starts, past>>

(* The rate limiter raises; the cycle catches it.                           *)
Throttled ==
  /\ pc = "send"
  /\ Drop
  /\ UNCHANGED <<books, account, snap, gate, clean, switch, hook, starts, past>>

Send ==
  /\ pc = "send"
  /\ wire' = wire \cup {hand.order}
  /\ GoTo("await")
  /\ UNCHANGED <<books, lots, working, hand, snap, gate, clean, switch, hook, starts, past>>

(* The broker's answer reports a fill, the whole of it or what there was    *)
(* when it was sent.                                                        *)
HearFill ==
  /\ pc = "await"
  /\ \E q \in 1..lots[hand.order] :
       /\ hand' = [hand EXCEPT !.got = q]
       /\ excused' = (excused \/ q < Full)
  /\ Confirm
  /\ GoTo("open")
  /\ UNCHANGED <<trade, position, account, snap, gate, clean, switch, hook, starts,
                 drifted, blind, ended>>

(* The answer reports no fill: the order works at the broker, or was        *)
(* refused there, or the retries ran out on lost answers.  The cycle counts *)
(* a failure and books nothing.                                             *)
HearNoFill ==
  /\ pc = "await"
  /\ Confirm
  /\ RecordFailures(1)
  /\ excused' = TRUE
  /\ Drop
  /\ UNCHANGED <<trade, position, account, snap, gate, clean, hook, starts,
                 drifted, blind, ended>>

(* No answer within 5 s: TimeoutError, which the cycle catches.             *)
TimeOut ==
  /\ pc = "await"
  /\ excused' = TRUE
  /\ Drop
  /\ UNCHANGED <<books, account, snap, gate, clean, switch, hook, starts,
                 drifted, blind, ended>>

-----------------------------------------------------------------------------
(* The fill is booked: open_trade adds the row, update_trade stores the     *)
(* broker's order id, fill_trade stores the fill, then reads and writes the *)
(* position.  Every write commits by itself.                                *)
SetTrade(step, status) ==
  /\ pc = step
  /\ trade' = [trade EXCEPT ![hand.order] = status]
  /\ drifted' = FALSE
  /\ UNCHANGED <<position, intents, account, hand, snap, gate, clean, switch, hook,
                 starts, blind, excused, ended>>

OpenTrade == SetTrade("open", "pending") /\ GoTo("submit")
SubmitTrade == SetTrade("submit", "submitted") /\ GoTo("fill")
FillTrade == SetTrade("fill", "filled") /\ GoTo("read")

ReadPosition ==
  /\ pc = "read"
  /\ hand' = [hand EXCEPT !.row = position]
  /\ GoTo("write")
  /\ UNCHANGED <<books, account, snap, gate, clean, switch, hook, starts, past>>

(* Mutant: the changed row is not stored.                                  *)
PositionAfterUnsaved(row, o, q) == position

(* The row that get_by_market finds after fill q of o was added to the row  *)
(* read before: an update of that row; or a new row, which is behind any    *)
(* row that was added meanwhile.                                            *)
PositionAfter(row, o, q) ==
  IF row = Flat /\ position # Flat THEN position ELSE [row EXCEPT ![o] = @ + q]

WritePosition ==
  /\ pc = "write"
  /\ position' = PositionAfter(hand.row, hand.order, hand.got)
  /\ RecordSuccess
  /\ drifted' = FALSE
  /\ Drop
  /\ UNCHANGED <<trade, intents, account, snap, gate, clean, hook, starts,
                 blind, excused, ended>>

(* An exception the cycle catches interrupts the booking.                   *)
Abandon ==
  /\ pc \in BookSteps
  /\ excused' = TRUE
  /\ Drop
  /\ UNCHANGED <<books, account, snap, gate, clean, switch, hook, starts,
                 drifted, blind, ended>>

-----------------------------------------------------------------------------
(* An exception that is none of _CYCLE_EXCEPTIONS (CircuitOpenError, a      *)
(* database error) leaves the loop: the finally of run_forever uninstalls   *)
(* the fatal handler ...                                                    *)
Escape ==
  /\ pc \notin {"down", "unwind"}
  /\ GoTo("unwind")
  /\ hook' = FALSE
  /\ UNCHANGED <<books, account, hand, snap, gate, clean, switch, starts, past>>

(* ... and the interpreter calls sys.excepthook: the handler, if it is      *)
(* still there, flattens and exits; the default hook prints a traceback.    *)
Terminate ==
  /\ pc = "unwind"
  /\ GoTo("down")
  /\ ended' = IF hook THEN "frozen" ELSE "exposed"
  /\ excused' = (excused \/ hand.order # NoOrder)
  /\ hand' = EmptyHand
  /\ gate' = FALSE
  /\ UNCHANGED <<books, account, snap, clean, switch, hook, starts, drifted, blind>>

(* SIGKILL, OOM, host loss.                                                 *)
Crash ==
  /\ pc # "down"
  /\ GoTo("down")
  /\ ended' = "crashed"
  /\ excused' = (excused \/ hand.order # NoOrder)
  /\ hand' = EmptyHand
  /\ gate' = FALSE
  /\ hook' = FALSE
  /\ UNCHANGED <<books, account, snap, clean, switch, starts, drifted, blind>>

-----------------------------------------------------------------------------
(* External: the broker takes a request and fills none, a part or all of it *)
(* at once; refuses it; fills more later; cancels the rest.                 *)
BrokerOnly == UNCHANGED <<books, pc, hand, snap, gate, clean, switch, hook, starts,
                          blind, excused, ended>>

BrokerAccepts(o, q) ==
  /\ o \in wire
  /\ wire' = wire \ {o}
  /\ lots' = [lots EXCEPT ![o] = q]
  /\ working' = IF q < Full THEN working \cup {o} ELSE working
  /\ drifted' = FALSE
  /\ BrokerOnly

BrokerRefuses(o) ==
  /\ o \in wire
  /\ wire' = wire \ {o}
  /\ UNCHANGED <<lots, working, drifted>>
  /\ BrokerOnly

BrokerFills(o) ==
  /\ o \in working
  /\ lots' = [lots EXCEPT ![o] = @ + 1]
  /\ working' = IF lots'[o] = Full THEN working \ {o} ELSE working
  /\ drifted' = FALSE
  /\ UNCHANGED wire
  /\ BrokerOnly

BrokerCancels(o) ==
  /\ o \in working
  /\ working' = working \ {o}
  /\ drifted' = FALSE
  /\ UNCHANGED <<wire, lots>>
  /\ BrokerOnly

(* The API process books a fill of its own paper broker.                    *)
ForeignFill(o) ==
  /\ trade[o] = "none"
  /\ trade' = [trade EXCEPT ![o] = "filled"]
  /\ position' = PositionAfter(position, o, Full)
  /\ excused' = TRUE
  /\ drifted' = FALSE
  /\ UNCHANGED <<intents, account, pc, hand, snap, gate, clean, switch, hook, starts,
                 blind, ended>>

-----------------------------------------------------------------------------
Reconcile ==
  ReadLocalPositions \/ ReadLocalOrders \/ ReadBrokerPositions \/ Judge

Booking == OpenTrade \/ SubmitTrade \/ FillTrade \/ ReadPosition \/ WritePosition

(* What the daemon's thread does by itself.                                 *)
Thread ==
  \/ Reconcile \/ LocalUnreadable \/ BrokerUnreadable
  \/ BeginCycles \/ EndCycles
  \/ \E o \in Orders \ Foreign : PlaceOrder(o)
  \/ Refuse \/ Throttled \/ Send \/ HearFill \/ HearNoFill \/ TimeOut
  \/ Booking \/ Abandon

Broker ==
  \E o \in Orders :
    \/ \E q \in 0..Full : BrokerAccepts(o, q)
    \/ BrokerRefuses(o) \/ BrokerFills(o) \/ BrokerCancels(o)

Next ==
  \/ Start \/ Age
  \/ Thread
  \/ Escape \/ Terminate \/ Crash
  \/ Broker
  \/ \E o \in Foreign : ForeignFill(o)

Spec == Init /\ [][Next]_vars

(* A live daemon runs, its cycles are finite, and its own database can be   *)
(* read again some time.  Of the broker nothing is assumed.                 *)
FairSpec ==
  /\ Spec
  /\ WF_vars(Thread) /\ WF_vars(Terminate) /\ SF_vars(EndCycles)
  /\ SF_vars(ReadLocalPositions) /\ SF_vars(ReadLocalOrders)

-----------------------------------------------------------------------------
(* Where the gate is used: outside the reconciliation.                      *)
GateSteps == {"loop", "cycles", "send", "await"} \cup BookSteps

(* "A reconciliation failure must actually stop order flow"                 *)
(* (tests/wiring/test_reconciliation_blocks_orders.py, B-3): a drift that   *)
(* was there when a reconciliation that could read the books began, and is  *)
(* there still, has closed the gate; a broker that cannot be read has too.  *)
DriftClosesGate == pc \in GateSteps /\ drifted /\ ~blind => ~gate

(* Between two orders of an undisturbed daemon the books are the broker's:  *)
(* only a partial or unheard fill, an interrupted booking, a death with an  *)
(* order in hand or another process's writes leave a drift behind.          *)
DriftOnlyByKnownCauses ==
  pc \in ReconcileSteps \cup {"loop", "cycles"} /\ ~excused => ~Drift

(* Whatever is interrupted, lost, overwritten or restarted, the books never *)
(* show more of an order than the broker has filled (open_trade and         *)
(* fill_trade run only after a reported fill, once).                        *)
BooksNeverAhead ==
  \A o \in Orders \ Foreign :
    position[o] <= lots[o] /\ (trade[o] # "none" => lots[o] > 0)

(* A drift under an open gate is noticed: the daemon's next iterations      *)
(* close the gate, unless the drift goes away or the daemon dies first.     *)
DriftIsCaught == Drift /\ gate ~> ~Drift \/ ~gate

=============================================================================
