------------------------------ MODULE OrderEntry ------------------------------
(***************************************************************************)
(* Order entry through the risk gate (application/cycle_executor.py,        *)
(* domain/services/risk_service.py): the API process serves retail orders   *)
(* on concurrent request threads (submit_retail_order) and the operator's   *)
(* kill switch; the daemon is another process that places the orders of its *)
(* cycles in the same way; both write the same positions table, and each    *)
(* has a kill switch of its own.                                            *)
(*                                                                          *)
(* Abstractions.  One market at price 1, quantities are whole; the brokers  *)
(* fill at once and in full (PaperBrokerAdapter with fill_probability 1).   *)
(* Nobody but its own thread reads an order's trade row, so its three       *)
(* writes are one.  Of authorize_order the checks that are modelled are     *)
(* equity, position size, gross exposure and kill switch; the others        *)
(* (profile, allowlist, staleness, daily loss) may refuse any order.  The   *)
(* daemon's own gate is in TradingDaemon: here it is open.                  *)
(***************************************************************************)
EXTENDS Integers, Sequences, FiniteSets, Functions

CONSTANTS
  Retail,       \* orders that come in over the API, each on its own thread
  Cycle,        \* orders of the daemon's cycles
  MaxQty,       \* bound: quantities tried
  Cash,         \* _default_cash
  PositionPct,  \* max_position_size, in percent of equity
  GrossPct,     \* max_gross_exposure, in percent of equity
  MaxNotional,  \* the order guardrail's max_order_notional
  MaxFailures   \* max_consecutive_failures of a kill switch

(* The caps are as they are configured: risk_config.py lets the gross cap   *)
(* be up to 1000 %, and does not look at what a user's own profile says.    *)
(* One below zero, which refuses every order, is left out.                  *)
ASSUME EntryAssumption ==
  /\ IsFiniteSet(Retail) /\ IsFiniteSet(Cycle) /\ Retail \cap Cycle = {}
  /\ MaxQty \in Nat \ {0} /\ Cash \in Nat /\ MaxNotional \in Nat
  /\ PositionPct \in Nat /\ GrossPct \in Nat
  /\ MaxFailures \in Nat \ {0}

VARIABLES
  rows,        \* positions table: the quantities of the market's rows, oldest first
  pc,          \* where the thread of each order is
  ticket,      \* its side and quantity
  summary,     \* the equity and gross exposure it has read
  found,       \* the position row it has read: its quantity, or none
  switch,      \* KillSwitch of each process
  halted,      \* history: the operator's last command was to engage
  overlapped,  \* history: an order read the books while another was under way
  raced        \* history: two orders held the same row between read and write

vars == <<rows, pc, ticket, summary, found, switch, halted, overlapped, raced>>

Orders == Retail \cup Cycle
Processes == {"api", "daemon"}
ProcessOf(o) == IF o \in Retail THEN "api" ELSE "daemon"
UnderWay == {"equity", "gate", "send", "trade", "read", "write"}
Ended == {"refused", "rejected", "failed", "booked", "unbooked"}

(* The row get_by_market found: a set with its quantity, or empty.          *)
NoRow == {}

(* Types of the books, the threads and the switches.                        *)
TypeOK ==
  LET Qty == (-MaxQty * Cardinality(Orders))..(MaxQty * Cardinality(Orders)) IN
  /\ rows \in Seq(Qty)
  /\ pc \in [Orders -> {"new"} \cup UnderWay \cup Ended]
  /\ ticket \in [Orders -> [side : {"buy", "sell"}, qty : 0..MaxQty]]
  /\ summary \in [Orders -> [equity : Int, gross : Nat]]
  /\ \A o \in Orders : found[o] = NoRow \/ \E q \in Qty : found[o] = {q}
  /\ switch \in [Processes -> [failures : 0..MaxFailures, open : BOOLEAN]]
  /\ halted \in BOOLEAN /\ overlapped \in BOOLEAN /\ raced \in BOOLEAN

Init ==
  /\ rows = <<>>
  /\ pc = [o \in Orders |-> "new"]
  /\ ticket = [o \in Orders |-> [side |-> "buy", qty |-> 0]]
  /\ summary = [o \in Orders |-> [equity |-> Cash, gross |-> 0]]
  /\ found = [o \in Orders |-> NoRow]
  /\ switch = [p \in Processes |-> [failures |-> 0, open |-> FALSE]]
  /\ halted = FALSE /\ overlapped = FALSE /\ raced = FALSE

-----------------------------------------------------------------------------
GoTo(o, step) == pc' = [pc EXCEPT ![o] = step]

Abs(n) == IF n < 0 THEN -n ELSE n

(* get_summary, of the open positions.                                      *)
Value == SumFunction(rows)
Gross == SumFunction([i \in DOMAIN rows |-> Abs(rows[i])])
Equity == Cash + Value

(* trade.side as a sign.                                                    *)
Signed(o) == IF ticket[o].side = "buy" THEN ticket[o].qty ELSE -ticket[o].qty

(* KillSwitch.can_trade, of the order's process.                            *)
CanTrade(o) ==
  ~switch[ProcessOf(o)].open /\ switch[ProcessOf(o)].failures < MaxFailures

(* KillSwitch.record_failure and record_success.                            *)
RecordFailure(o) ==
  LET n == switch[ProcessOf(o)].failures + 1 IN
  switch' = [switch EXCEPT ![ProcessOf(o)] =
    [failures |-> IF n < MaxFailures THEN n ELSE MaxFailures,
     open |-> @.open \/ n >= MaxFailures]]

RecordSuccess(o) ==
  switch' = [switch EXCEPT ![ProcessOf(o)].failures = 0]

-----------------------------------------------------------------------------
(* A request arrives, or a cycle has a signal (the daemon's one thread has  *)
(* one at a time): its thread reads the books, a cycle the equity once more *)
(* after the exposure.                                                      *)
ReadBooks(o, side, qty) ==
  /\ pc[o] = "new"
  /\ o \in Cycle => \A d \in Cycle : pc[d] \notin UnderWay
  /\ GoTo(o, IF o \in Cycle THEN "equity" ELSE "gate")
  /\ ticket' = [ticket EXCEPT ![o] = [side |-> side, qty |-> qty]]
  /\ summary' = [summary EXCEPT ![o] = [equity |-> Equity, gross |-> Gross]]
  /\ overlapped' = (overlapped \/ \E d \in Orders : pc[d] \in UnderWay)
  /\ UNCHANGED <<rows, found, switch, halted, raced>>

ReadEquity(o) ==
  /\ pc[o] = "equity"
  /\ GoTo(o, "gate")
  /\ summary' = [summary EXCEPT ![o].equity = Equity]
  /\ UNCHANGED <<rows, ticket, found, switch, halted, overlapped, raced>>

(* Mutant: what the order adds to the exposure is forgotten.                *)
WithinCapsBefore(o) ==
  LET eq == summary[o].equity  n == ticket[o].qty IN
  eq > 0 /\ n * 100 <= eq * PositionPct /\ summary[o].gross * 100 <= eq * GrossPct

(* authorize_order: the notional against the size of a position, and the    *)
(* exposure with it against the gross cap.                                  *)
WithinCaps(o) ==
  LET eq == summary[o].equity  n == ticket[o].qty IN
  /\ eq > 0
  /\ n * 100 <= eq * PositionPct
  /\ (summary[o].gross + n) * 100 <= eq * GrossPct

Authorize(o) ==
  /\ pc[o] = "gate"
  /\ WithinCaps(o)
  /\ CanTrade(o)
  /\ GoTo(o, "send")
  /\ UNCHANGED <<rows, ticket, summary, found, switch, halted, overlapped, raced>>

(* Refused by one of these or one of the other checks.                      *)
Refuse(o) ==
  /\ pc[o] = "gate"
  /\ GoTo(o, "refused")
  /\ UNCHANGED <<rows, ticket, summary, found, switch, halted, overlapped, raced>>

(* The guardrail rejects the size: a fill that is not filled.               *)
Reject(o) ==
  /\ pc[o] = "send"
  /\ ticket[o].qty > MaxNotional
  /\ RecordFailure(o)
  /\ GoTo(o, "rejected")
  /\ UNCHANGED <<rows, ticket, summary, found, halted, overlapped, raced>>

(* An exception that is not one of _CYCLE_EXCEPTIONS ends the request, or   *)
(* the daemon, which its supervisor starts again with a switch of its own.  *)
Restarted(o) ==
  IF o \in Cycle THEN [switch EXCEPT !["daemon"] = [failures |-> 0, open |-> FALSE]]
  ELSE switch

(* The rate limiter raises, which a cycle catches: nothing is recorded; or  *)
(* the breaker does, which escapes.                                         *)
Throttle(o) ==
  /\ pc[o] = "send"
  /\ GoTo(o, "failed")
  /\ switch' \in {switch, Restarted(o)}
  /\ UNCHANGED <<rows, ticket, summary, found, halted, overlapped, raced>>

(* The broker fills the order.                                              *)
Fill(o) ==
  /\ pc[o] = "send"
  /\ ticket[o].qty <= MaxNotional
  /\ GoTo(o, "trade")
  /\ UNCHANGED <<rows, ticket, summary, found, switch, halted, overlapped, raced>>

(* open_trade, trade.submit, update_trade, and trade.fill with its update.  *)
WriteTrade(o) ==
  /\ pc[o] = "trade"
  /\ GoTo(o, "read")
  /\ UNCHANGED <<rows, ticket, summary, found, switch, halted, overlapped, raced>>

(* fill_trade: get_by_market, which finds the oldest row.  Buying back just *)
(* what a short position is short of divides by existing.quantity +         *)
(* trade.quantity = 0 in the average price and raises.                      *)
DividesByZero(o) ==
  rows # <<>> /\ ticket[o].side = "buy" /\ Head(rows) + ticket[o].qty = 0

ReadRow(o) ==
  /\ pc[o] = "read"
  /\ ~DividesByZero(o)
  /\ found' = [found EXCEPT ![o] = IF rows = <<>> THEN NoRow ELSE {Head(rows)}]
  /\ GoTo(o, "write")
  /\ raced' = (raced \/ (rows # <<>> /\ \E d \in Orders : pc[d] = "write" /\ found[d] # NoRow))
  /\ UNCHANGED <<rows, ticket, summary, switch, halted, overlapped>>

RaiseOnRow(o) ==
  /\ pc[o] = "read"
  /\ DividesByZero(o)
  /\ GoTo(o, "unbooked")
  /\ switch' = Restarted(o)
  /\ UNCHANGED <<rows, ticket, summary, found, halted, overlapped, raced>>

(* Mutant: a fill on an existing row is added whatever its side.            *)
RowsAfterUnsigned(o) ==
  IF found[o] = NoRow THEN Append(rows, Signed(o))
  ELSE LET q == CHOOSE q \in found[o] : TRUE IN <<q + ticket[o].qty>> \o Tail(rows)

(* The row that was read is updated from what was read; without one a new   *)
(* row is added, whatever was added meanwhile.                              *)
RowsAfter(o) ==
  IF found[o] = NoRow THEN Append(rows, Signed(o))
  ELSE LET q == CHOOSE q \in found[o] : TRUE IN <<q + Signed(o)>> \o Tail(rows)

WriteRow(o) ==
  /\ pc[o] = "write"
  /\ rows' = RowsAfter(o)
  /\ RecordSuccess(o)
  /\ GoTo(o, "booked")
  /\ UNCHANGED <<ticket, summary, found, halted, overlapped, raced>>

-----------------------------------------------------------------------------
(* The operator's endpoints, which act on the API process's switch.         *)
Engage ==
  /\ switch' = [switch EXCEPT !["api"].open = TRUE]
  /\ halted' = TRUE
  /\ UNCHANGED <<rows, pc, ticket, summary, found, overlapped, raced>>

Disengage ==
  /\ switch' = [switch EXCEPT !["api"] = [failures |-> 0, open |-> FALSE]]
  /\ halted' = FALSE
  /\ UNCHANGED <<rows, pc, ticket, summary, found, overlapped, raced>>

-----------------------------------------------------------------------------
OrderStep(o) ==
  \/ \E side \in {"buy", "sell"}, qty \in 1..MaxQty : ReadBooks(o, side, qty)
  \/ ReadEquity(o) \/ Authorize(o) \/ Refuse(o)
  \/ Reject(o) \/ Throttle(o) \/ Fill(o)
  \/ WriteTrade(o) \/ ReadRow(o) \/ RaiseOnRow(o) \/ WriteRow(o)

Next ==
  \/ \E o \in Orders : OrderStep(o)
  \/ Engage
  \/ Disengage

Spec == Init /\ [][Next]_vars

-----------------------------------------------------------------------------
Booked == {o \in Orders : pc[o] = "booked"}

(* Unless two orders held the same row at once, the position rows add up to *)
(* the fills that were booked, also when concurrent orders have added two   *)
(* rows for the market (fill_trade reads and writes without a transaction). *)
BooksAreTheFills ==
  ~raced => Value = SumFunction([o \in Booked |-> Signed(o)])

(* "when adding the order would push total gross exposure past              *)
(* max_gross_exposure of equity" (authorize_order): as long as no order     *)
(* reads the books while another is under way, the exposure stays below the *)
(* cap, but for the equity a short sale takes away with it.                 *)
CapOnlyOverrunByOverlap ==
  ~overlapped => Gross * 100 <= (Equity + MaxNotional) * GrossPct

=============================================================================
