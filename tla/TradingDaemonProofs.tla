------------------------- MODULE TradingDaemonProofs -------------------------
(***************************************************************************)
(* What the trading daemon's books, gate and broker keep true of each other,*)
(* for any set of orders, any limit of failures and any number of starts.   *)
(*                                                                          *)
(* Three invariants, one on top of the other: BooksInv follows an order     *)
(* from the intent to the position, GateInv follows a drift through a       *)
(* reconciliation to the gate, CleanInv says where a drift can come from.   *)
(*                                                                          *)
(* And about the fail-over between daemons, for any number of them.         *)
(***************************************************************************)
EXTENDS TradingDaemon, MCFailover, FiniteSetTheorems, TLAPS

(* The steps with an order in hand, and those with none.                    *)
HandSteps == {"send", "await"} \cup BookSteps
IdleSteps == ReconcileSteps \cup {"loop", "cycles", "down"}

HandTyped ==
  /\ pc \in HandSteps => hand.order \in Orders \ Foreign
  /\ pc \in IdleSteps => hand = EmptyHand

(* A request the broker has not processed has no fill and no open order,    *)
(* and an open order is not full.                                           *)
WireBeforeFill ==
  \A o \in Orders :
    /\ o \in wire => lots[o] = 0 /\ o \notin working
    /\ o \in working => lots[o] < Full

(* Lots are in a position, read or stored, only after their trade is filled.*)
PositionAfterTrade ==
  \A o \in Orders : position[o] > 0 \/ hand.row[o] > 0 => trade[o] = "filled"

(* The order in hand: what its rows are at every step, and that the broker  *)
(* has not heard of it before it is sent.                                   *)
HandBooked ==
  /\ pc \in HandSteps => position[hand.order] = 0 /\ hand.row[hand.order] = 0
  /\ pc \in {"send", "await", "open"} => trade[hand.order] = "none"
  /\ pc = "submit" => trade[hand.order] = "pending"
  /\ pc = "fill" => trade[hand.order] = "submitted"
  /\ pc \in {"read", "write"} => trade[hand.order] = "filled"
  /\ pc = "send" => lots[hand.order] = 0 /\ hand.order \notin wire \cup working

(* The fill being booked is one the broker made.                            *)
FillIsReal == pc \in BookSteps => hand.got > 0 /\ hand.got <= lots[hand.order]

(* The row the daemon has read is not ahead of the broker either.           *)
RowNeverAhead == \A o \in Orders \ Foreign : hand.row[o] <= lots[o]

BooksInv ==
  TypeOK /\ HandTyped /\ WireBeforeFill /\ PositionAfterTrade /\ HandBooked
    /\ FillIsReal /\ RowNeverAhead /\ BooksNeverAhead

-----------------------------------------------------------------------------
(* Numbers of failures stay within the bound.                               *)
LEMMA FailuresTyped ==
  ASSUME NEW n \in Nat, failures \in 0..MaxFailures
  PROVE  FailuresAfter(n) \in 0..MaxFailures
BY DaemonAssumption DEF FailuresAfter

(* The number of severe mismatches is a number.                             *)
LEMMA MismatchesTyped ==
  ASSUME BooksInv
  PROVE  Mismatches(working) \in Nat
<1>1. Difference(working, snap.orders) \subseteq Orders
  BY DEF BooksInv, TypeOK, Difference
<1>2. IsFiniteSet(Difference(working, snap.orders))
  BY <1>1, DaemonAssumption, FS_Subset
<1>3. Cardinality(Difference(working, snap.orders)) \in Nat
  BY <1>2, FS_CardinalityType
<1> QED
  BY <1>3 DEF Mismatches, PositionMismatches, StaleMismatches

LEMMA InitBooks == ASSUME Init PROVE BooksInv
<1> USE DEF Init, Flat, Full, Book, EmptyHand, EmptySnap
<1>1. TypeOK
  <2>1. trade \in [Orders -> Statuses]
    BY DEF Statuses
  <2>2. Flat \in Book
    OBVIOUS
  <2>3. hand \in [order : Orders \cup {NoOrder}, got : 0..Full, row : Book]
    BY <2>2
  <2>4. snap \in [position : Book, orders : SUBSET Orders, broker : Book]
    BY <2>2
  <2>5. position \in Book /\ lots \in Book
    BY <2>2
  <2>6. failures \in 0..MaxFailures /\ starts \in 0..MaxStarts
    BY DaemonAssumption
  <2> HIDE DEF Book, Full, EmptyHand, EmptySnap, Flat
  <2> QED
    BY <2>1, <2>3, <2>4, <2>5, <2>6 DEF TypeOK, Steps
<1>2. HandTyped /\ HandBooked /\ FillIsReal
  BY DEF HandTyped, HandBooked, FillIsReal, HandSteps, BookSteps
<1>3. WireBeforeFill /\ PositionAfterTrade /\ RowNeverAhead /\ BooksNeverAhead
  BY DaemonAssumption DEF WireBeforeFill, PositionAfterTrade, RowNeverAhead, BooksNeverAhead
<1> QED
  BY <1>1, <1>2, <1>3 DEF BooksInv

(* What the actions that touch neither the books nor the account nor the    *)
(* order in hand have in common.                                            *)
LEMMA IdleKeepsBooks ==
  ASSUME BooksInv, UNCHANGED <<books, account>>,
         pc' \in IdleSteps \cup {"unwind"}, hand' = EmptyHand \/ (hand' = hand /\ pc' = "unwind"),
         snap' \in [position : Book, orders : SUBSET Orders, broker : Book],
         gate' \in BOOLEAN, tripped' \in BOOLEAN, hook' \in BOOLEAN,
         clean' \in {"never", "recent", "old"}, failures' \in 0..MaxFailures,
         starts' \in 0..MaxStarts, drifted' \in BOOLEAN, blind' \in BOOLEAN,
         excused' \in BOOLEAN, ended' \in {"not", "crashed", "frozen", "exposed"}
  PROVE  BooksInv'
BY DaemonAssumption
   DEF BooksInv, TypeOK, HandTyped, WireBeforeFill, PositionAfterTrade, HandBooked,
       FillIsReal, RowNeverAhead, BooksNeverAhead, EmptyHand, Flat, Book, Full,
       Statuses, Steps, HandSteps, IdleSteps, BookSteps, ReconcileSteps, books, account

-----------------------------------------------------------------------------
(* Starting, reconciling, opening and closing the gate, dying.              *)
LEMMA ReconcileKeepsBooks ==
  ASSUME BooksInv, Start \/ Reconcile \/ LocalUnreadable \/ BrokerUnreadable \/ Age
                     \/ BeginCycles \/ EndCycles
  PROVE  BooksInv'
<1> USE DEF ReconcileSteps, IdleSteps, GoTo, Reconciled, RecordFailures, Flat, Book, Full,
            EmptySnap, books, account, switch, past
<1>0. hand \in [order : Orders \cup {NoOrder}, got : 0..Full, row : Book] /\ Flat \in Book
  BY DEF BooksInv, TypeOK
<1>1. CASE Start
  <2>1. starts' \in 0..MaxStarts /\ failures' \in 0..MaxFailures
    BY <1>1, DaemonAssumption DEF Start, BooksInv, TypeOK
  <2>2. hand' = EmptyHand
    BY <1>1 DEF Start, BooksInv, HandTyped
  <2> QED
    BY <1>1, <2>1, <2>2, IdleKeepsBooks DEF Start, BooksInv, TypeOK
<1>2. CASE ReadLocalPositions
  <2>1. snap' = [position |-> position, orders |-> {}, broker |-> Flat]
    BY <1>2 DEF ReadLocalPositions
  <2>2. snap' \in [position : Book, orders : SUBSET Orders, broker : Book]
    BY <2>1, <1>0 DEF BooksInv, TypeOK
  <2>3. hand' = EmptyHand /\ drifted' \in BOOLEAN /\ blind' \in BOOLEAN /\ pc' \in IdleSteps
    BY <1>2 DEF ReadLocalPositions, BooksInv, HandTyped, Drift
  <2>4. UNCHANGED <<books, account, gate, clean, switch, hook, starts, excused, ended>>
    BY <1>2 DEF ReadLocalPositions
  <2>5. TypeOK
    BY DEF BooksInv
  <2> QED
    BY <2>2, <2>3, <2>4, <2>5, IdleKeepsBooks DEF TypeOK
<1>3. CASE ReadLocalOrders
  BY <1>3, IdleKeepsBooks DEF ReadLocalOrders, BooksInv, TypeOK, HandTyped, LocalOrders
<1>4. CASE LocalUnreadable
  BY <1>4, IdleKeepsBooks DEF LocalUnreadable, BooksInv, TypeOK, HandTyped, Drift
<1>5. CASE ReadBrokerPositions
  BY <1>5, IdleKeepsBooks DEF ReadBrokerPositions, BooksInv, TypeOK, HandTyped
<1>6. CASE BrokerUnreadable
  <2>1. FailuresAfter(1) \in 0..MaxFailures
    BY FailuresTyped DEF BooksInv, TypeOK
  <2> QED
    BY <1>6, <2>1, IdleKeepsBooks DEF BrokerUnreadable, BooksInv, TypeOK, HandTyped
<1>7. CASE Judge
  <2>1. FailuresAfter(Mismatches(working)) \in 0..MaxFailures
    BY FailuresTyped, MismatchesTyped DEF BooksInv, TypeOK
  <2> QED
    BY <1>7, <2>1, IdleKeepsBooks DEF Judge, BooksInv, TypeOK, HandTyped
<1>8. CASE BeginCycles \/ EndCycles
  BY <1>8, IdleKeepsBooks DEF BeginCycles, EndCycles, BooksInv, TypeOK, HandTyped
<1>9. CASE Age
  BY <1>9 DEF Age, BooksInv, TypeOK, HandTyped, WireBeforeFill, PositionAfterTrade,
       HandBooked, FillIsReal, RowNeverAhead, BooksNeverAhead
<1> QED
  BY <1>1, <1>2, <1>3, <1>4, <1>5, <1>6, <1>7, <1>8, <1>9 DEF Reconcile

LEMMA DyingKeepsBooks ==
  ASSUME BooksInv, Escape \/ Terminate \/ Crash
  PROVE  BooksInv'
<1> USE DEF IdleSteps, GoTo, books, account, switch, past
<1>1. CASE Escape
  <2>1. /\ pc' = "unwind" /\ hand' = hand /\ hook' \in BOOLEAN
        /\ UNCHANGED <<books, account, snap, gate, clean, switch, starts, past>>
    BY <1>1 DEF Escape
  <2>2. TypeOK
    BY DEF BooksInv
  <2> QED
    BY <2>1, <2>2, IdleKeepsBooks DEF TypeOK
<1>2. CASE Terminate
  BY <1>2, IdleKeepsBooks DEF Terminate, BooksInv, TypeOK
<1>3. CASE Crash
  BY <1>3, IdleKeepsBooks DEF Crash, BooksInv, TypeOK
<1> QED
  BY <1>1, <1>2, <1>3

(* Dropping the order in hand, for whatever reason.                         *)
LEMMA DropKeepsBooks ==
  ASSUME BooksInv, Refuse \/ Throttled \/ HearNoFill \/ TimeOut \/ Abandon
  PROVE  BooksInv'
<1>1. FailuresAfter(1) \in 0..MaxFailures
  BY FailuresTyped DEF BooksInv, TypeOK
<1>2. intents' \in SUBSET Orders /\ UNCHANGED <<trade, position, account>> /\ pc' = "cycles"
      /\ hand' = EmptyHand /\ failures' \in 0..MaxFailures /\ tripped' \in BOOLEAN
      /\ excused' \in BOOLEAN /\ UNCHANGED <<snap, gate, clean, hook, starts, drifted, blind, ended>>
  BY <1>1 DEF Refuse, Throttled, HearNoFill, TimeOut, Abandon, Drop, Confirm, GoTo,
       RecordFailures, BooksInv, TypeOK, books, account, switch, past
<1> QED
  BY <1>2, DaemonAssumption
     DEF BooksInv, TypeOK, HandTyped, WireBeforeFill, PositionAfterTrade, HandBooked,
         FillIsReal, RowNeverAhead, BooksNeverAhead, EmptyHand, Flat, Book, Full,
         Steps, HandSteps, IdleSteps, BookSteps, ReconcileSteps, account

(* Placing an order and hearing of its fill.                                *)
LEMMA SubmitKeepsBooks ==
  ASSUME BooksInv, (\E o \in Orders \ Foreign : PlaceOrder(o)) \/ Send \/ HearFill
  PROVE  BooksInv'
<1> USE DEF BooksInv, TypeOK, Full, Book, Flat, EmptyHand, Steps, HandSteps, IdleSteps,
            BookSteps, ReconcileSteps, GoTo, Confirm, books, account, switch, past
<1>1. CASE \E o \in Orders \ Foreign : PlaceOrder(o)
  <2>1. PICK o \in Orders \ Foreign : PlaceOrder(o)
    BY <1>1
  <2>2. hand' = [order |-> o, got |-> 0, row |-> Flat]
    BY <2>1 DEF PlaceOrder
  <2>3. position[o] = 0
    BY <2>1 DEF PlaceOrder, Fresh, PositionAfterTrade
  <2>4. TypeOK'
    BY <2>1, <2>2, DaemonAssumption DEF PlaceOrder
  <2>5. HandTyped' /\ HandBooked' /\ FillIsReal'
    BY <2>1, <2>2, <2>3 DEF PlaceOrder, Fresh, HandTyped, HandBooked, FillIsReal
  <2>6. WireBeforeFill' /\ PositionAfterTrade' /\ RowNeverAhead' /\ BooksNeverAhead'
    BY <2>1, <2>2 DEF PlaceOrder, WireBeforeFill, PositionAfterTrade, RowNeverAhead, BooksNeverAhead
  <2> QED
    BY <2>4, <2>5, <2>6
<1>2. CASE Send
  <2>1. hand.order \in Orders \ Foreign
    BY <1>2 DEF Send, HandTyped
  <2>2. TypeOK'
    BY <1>2, <2>1 DEF Send
  <2>3. HandTyped' /\ HandBooked' /\ FillIsReal'
    BY <1>2, <2>1 DEF Send, HandTyped, HandBooked, FillIsReal
  <2>4. WireBeforeFill' /\ PositionAfterTrade' /\ RowNeverAhead' /\ BooksNeverAhead'
    BY <1>2, <2>1 DEF Send, HandBooked, WireBeforeFill, PositionAfterTrade, RowNeverAhead, BooksNeverAhead
  <2> QED
    BY <2>2, <2>3, <2>4
<1>3. CASE HearFill
  <2>1. PICK q \in 1..lots[hand.order] : hand' = [hand EXCEPT !.got = q]
                                        /\ excused' = (excused \/ q < Full)
    BY <1>3 DEF HearFill
  <2>2. hand.order \in Orders \ Foreign
    BY <1>3 DEF HearFill, HandTyped
  <2>3. q \in 0..Full /\ q > 0 /\ q <= lots[hand.order]
    BY <2>1, <2>2
  <2>4. hand'.order = hand.order /\ hand'.got = q /\ hand'.row = hand.row
    BY <2>1
  <2>5. TypeOK'
    BY <1>3, <2>1, <2>3 DEF HearFill
  <2>6. HandTyped' /\ HandBooked' /\ FillIsReal'
    BY <1>3, <2>2, <2>3, <2>4 DEF HearFill, HandTyped, HandBooked, FillIsReal
  <2>7. WireBeforeFill' /\ PositionAfterTrade' /\ RowNeverAhead' /\ BooksNeverAhead'
    BY <1>3, <2>4 DEF HearFill, WireBeforeFill, PositionAfterTrade, RowNeverAhead, BooksNeverAhead
  <2> QED
    BY <2>5, <2>6, <2>7
<1> QED
  BY <1>1, <1>2, <1>3

(* Booking the fill.                                                        *)
LEMMA TradeKeepsBooks ==
  ASSUME BooksInv, OpenTrade \/ SubmitTrade \/ FillTrade
  PROVE  BooksInv'
<1> USE DEF BooksInv, TypeOK, Full, Book, HandSteps, BookSteps, books, account, switch, past
<1>1. PICK step \in {"open", "submit", "fill"}, status \in Statuses \ {"none"} :
        SetTrade(step, status)
  BY DEF OpenTrade, SubmitTrade, FillTrade, Statuses
<1>2. hand.order \in Orders \ Foreign /\ pc \in BookSteps
  BY <1>1 DEF SetTrade, HandTyped
<1>3. trade'[hand.order] = status /\ \A o \in Orders \ {hand.order} : trade'[o] = trade[o]
  BY <1>1, <1>2 DEF SetTrade
<1>4. pc' \in BookSteps
  BY DEF OpenTrade, SubmitTrade, FillTrade, GoTo
<1>5. TypeOK'
  BY <1>1, <1>2, <1>4 DEF SetTrade, Steps
<1>6. HandTyped' /\ FillIsReal'
  BY <1>1, <1>2, <1>4 DEF SetTrade, HandTyped, FillIsReal, IdleSteps, ReconcileSteps
<1>7. HandBooked'
  BY <1>1, <1>2, <1>3 DEF OpenTrade, SubmitTrade, FillTrade, SetTrade, GoTo, HandBooked
<1>8. WireBeforeFill' /\ PositionAfterTrade' /\ RowNeverAhead'
  BY <1>1, <1>2, <1>3 DEF SetTrade, WireBeforeFill, PositionAfterTrade, HandBooked, RowNeverAhead
<1>9. BooksNeverAhead'
  BY <1>1, <1>2, <1>3 DEF SetTrade, FillIsReal, BooksNeverAhead
<1> QED
  BY <1>5, <1>6, <1>7, <1>8, <1>9

LEMMA PositionKeepsBooks ==
  ASSUME BooksInv, ReadPosition \/ WritePosition
  PROVE  BooksInv'
<1> USE DEF BooksInv, TypeOK, Full, Book, HandSteps, BookSteps, IdleSteps, ReconcileSteps,
            Steps, GoTo, books, account, switch, past
<1>1. hand.order \in Orders \ Foreign /\ position[hand.order] = 0 /\ hand.row[hand.order] = 0
  BY DEF ReadPosition, WritePosition, HandTyped, HandBooked
<1>2. CASE ReadPosition
  <2>1. hand'.order = hand.order /\ hand'.got = hand.got /\ hand'.row = position
    BY <1>2 DEF ReadPosition
  <2>2. TypeOK'
    BY <1>2 DEF ReadPosition
  <2>3. HandTyped' /\ HandBooked' /\ FillIsReal'
    BY <1>1, <1>2, <2>1 DEF ReadPosition, HandTyped, HandBooked, FillIsReal
  <2>4. WireBeforeFill' /\ PositionAfterTrade' /\ RowNeverAhead' /\ BooksNeverAhead'
    BY <1>2, <2>1 DEF ReadPosition, WireBeforeFill, PositionAfterTrade, RowNeverAhead, BooksNeverAhead
  <2> QED
    BY <2>2, <2>3, <2>4
<1>3. CASE WritePosition
  <2>1. trade[hand.order] = "filled" /\ hand.got > 0 /\ hand.got <= lots[hand.order]
    BY <1>3 DEF WritePosition, HandBooked, FillIsReal
  <2>2. trade[hand.order] = "filled" /\ hand.got \in 1..lots[hand.order]
    BY <1>1, <2>1
  <2>3. \/ position' = position
        \/ position' = [hand.row EXCEPT ![hand.order] = hand.row[hand.order] + hand.got]
    BY <1>3 DEF WritePosition, PositionAfter
  <2>4. position' \in Book
    BY <1>1, <2>2, <2>3
  <2>5. hand' = [order |-> NoOrder, got |-> 0, row |-> Flat]
    BY <1>3 DEF WritePosition, Drop, EmptyHand
  <2>6. Flat \in Book
    BY DEF Flat
  <2>7. hand' \in [order : Orders \cup {NoOrder}, got : 0..Full, row : Book]
    BY <2>5, <2>6
  <2>8. failures' \in 0..MaxFailures
    BY <1>3, DaemonAssumption DEF WritePosition, RecordSuccess
  <2>9. TypeOK'
    BY <1>3, <2>4, <2>7, <2>8 DEF WritePosition, Drop, RecordSuccess
  <2>10. HandTyped' /\ HandBooked' /\ FillIsReal' /\ RowNeverAhead' /\ WireBeforeFill'
    BY <1>3, <2>5
       DEF WritePosition, Drop, EmptyHand, HandTyped, HandBooked, FillIsReal, RowNeverAhead,
           WireBeforeFill, Flat
  <2>11. \A o \in Orders : position'[o] > 0 => trade[o] = "filled"
    BY <1>1, <2>2, <2>3 DEF PositionAfterTrade
  <2>12. \A o \in Orders \ Foreign : position'[o] <= lots[o]
    BY <1>1, <2>2, <2>3 DEF RowNeverAhead, BooksNeverAhead
  <2>13. PositionAfterTrade'
    BY <1>3, <2>5, <2>11 DEF WritePosition, PositionAfterTrade, Flat
  <2>14. BooksNeverAhead'
    BY <1>3, <2>12 DEF WritePosition, BooksNeverAhead
  <2> QED
    BY <2>9, <2>10, <2>13, <2>14
<1> QED
  BY <1>2, <1>3

(* The broker's side.                                                       *)
LEMMA BrokerKeepsBooks ==
  ASSUME BooksInv, Broker
  PROVE  BooksInv'
<1> USE DEF BooksInv, TypeOK, Full, Book, BrokerOnly, books, switch
<1>1. PICK o \in Orders : (\E q \in 0..Full : BrokerAccepts(o, q)) \/ BrokerRefuses(o)
                         \/ BrokerFills(o) \/ BrokerCancels(o)
  BY DEF Broker
<1>2. \A p \in Orders \ {o} : lots'[p] = lots[p]
  BY <1>1 DEF BrokerAccepts, BrokerRefuses, BrokerFills, BrokerCancels
<1>3. lots'[o] \in 0..Full /\ lots[o] <= lots'[o]
  BY <1>1 DEF BrokerAccepts, BrokerRefuses, BrokerFills, BrokerCancels, WireBeforeFill
<1>4. lots' \in Book /\ wire' \subseteq wire /\ working' \subseteq working \cup wire
  BY <1>1, <1>2, <1>3 DEF BrokerAccepts, BrokerRefuses, BrokerFills, BrokerCancels
<1>5. UNCHANGED <<books, pc, hand, snap, gate, clean, switch, hook, starts, blind, excused, ended>>
      /\ drifted' \in BOOLEAN
  BY <1>1 DEF BrokerAccepts, BrokerRefuses, BrokerFills, BrokerCancels
<1>6. TypeOK'
  BY <1>4, <1>5
<1>7. WireBeforeFill'
  <2>1. CASE \E q \in 0..Full : BrokerAccepts(o, q)
    BY <2>1 DEF BrokerAccepts, WireBeforeFill
  <2>2. CASE BrokerRefuses(o) \/ BrokerFills(o) \/ BrokerCancels(o)
    BY <2>2 DEF BrokerRefuses, BrokerFills, BrokerCancels, WireBeforeFill
  <2> QED
    BY <1>1, <2>1, <2>2
<1>8. pc = "send" => o # hand.order
  BY <1>1 DEF BrokerAccepts, BrokerRefuses, BrokerFills, BrokerCancels, HandBooked
<1>9. HandTyped' /\ HandBooked'
  <2>1. pc = "send" => hand.order \in Orders \ Foreign
    BY DEF HandTyped, HandSteps
  <2>2. pc = "send" => lots'[hand.order] = 0 /\ hand.order \notin wire' \cup working'
    BY <1>2, <1>4, <1>8, <2>1 DEF HandBooked
  <2> QED
    BY <1>5, <2>2 DEF HandTyped, HandBooked
<1>10. \A p \in Orders : lots[p] <= lots'[p]
  BY <1>2, <1>3
<1>11. FillIsReal'
  <2>1. pc \in BookSteps => hand.order \in Orders
    BY DEF HandTyped, HandSteps
  <2> QED
    BY <1>4, <1>5, <1>10, <2>1 DEF FillIsReal
<1>12. PositionAfterTrade'
  BY <1>5 DEF PositionAfterTrade
<1>13. RowNeverAhead'
  BY <1>4, <1>5, <1>10 DEF RowNeverAhead
<1>14. BooksNeverAhead'
  BY <1>4, <1>5, <1>10 DEF BooksNeverAhead
<1> QED
  BY <1>6, <1>7, <1>9, <1>11, <1>12, <1>13, <1>14

LEMMA ForeignKeepsBooks ==
  ASSUME BooksInv, NEW o \in Foreign, ForeignFill(o)
  PROVE  BooksInv'
<1> USE DaemonAssumption
        DEF BooksInv, TypeOK, Full, Book, ForeignFill, account, switch
<1>1. position[o] = 0 /\ o \in Orders
  BY DEF PositionAfterTrade
<1>2. position' = position \/ position' = [position EXCEPT ![o] = position[o] + Full]
  BY DEF PositionAfter
<1>3. position' \in Book /\ \A p \in Orders \ {o} : position'[p] = position[p]
  BY <1>1, <1>2
<1>4. trade' \in [Orders -> Statuses] /\ trade'[o] = "filled"
      /\ \A p \in Orders \ {o} : trade'[p] = trade[p]
  BY <1>1 DEF Statuses
<1>5. UNCHANGED <<intents, wire, lots, working, pc, hand>>
  OBVIOUS
<1>6. pc \in HandSteps => hand.order \in Orders \ {o}
  BY DEF HandTyped
<1>7. TypeOK'
  BY <1>3, <1>4
<1>8. HandTyped' /\ FillIsReal' /\ WireBeforeFill' /\ RowNeverAhead'
  BY <1>5 DEF HandTyped, FillIsReal, WireBeforeFill, RowNeverAhead
<1>9. HandBooked'
  BY <1>3, <1>4, <1>5, <1>6 DEF HandBooked, HandSteps, BookSteps
<1>10. PositionAfterTrade' /\ BooksNeverAhead'
  BY <1>3, <1>4, <1>5 DEF PositionAfterTrade, BooksNeverAhead
<1> QED
  BY <1>7, <1>8, <1>9, <1>10

-----------------------------------------------------------------------------
LEMMA NextBooks ==
  ASSUME BooksInv, [Next]_vars
  PROVE  BooksInv'
<1>1. CASE UNCHANGED vars
  BY <1>1 DEF vars, books, account, switch, past, BooksInv, TypeOK, HandTyped, WireBeforeFill,
       PositionAfterTrade, HandBooked, FillIsReal, RowNeverAhead, BooksNeverAhead
<1>2. CASE Thread
  BY <1>2, ReconcileKeepsBooks, DropKeepsBooks, SubmitKeepsBooks, TradeKeepsBooks,
     PositionKeepsBooks DEF Thread, Booking
<1>3. CASE Start \/ Age \/ Escape \/ Terminate \/ Crash
  BY <1>3, ReconcileKeepsBooks, DyingKeepsBooks
<1>4. CASE Broker \/ \E o \in Foreign : ForeignFill(o)
  BY <1>4, BrokerKeepsBooks, ForeignKeepsBooks
<1> QED
  BY <1>1, <1>2, <1>3, <1>4 DEF Next

(* Types, and BooksNeverAhead: for any orders, failures and restarts the    *)
(* books never show more of an order than the broker has filled.            *)
THEOREM NeverAhead == Spec => [](TypeOK /\ BooksNeverAhead)
<1>1. Init => BooksInv
  BY InitBooks
<1>2. BooksInv /\ [Next]_vars => BooksInv'
  BY NextBooks
<1>3. BooksInv => TypeOK /\ BooksNeverAhead
  BY DEF BooksInv
<1> QED
  BY <1>1, <1>2, <1>3, PTL DEF Spec

-----------------------------------------------------------------------------
(* From the drift to the gate.  What the reconciliation has read so far is  *)
(* what there is, as long as nothing was written since it began.            *)
ReadIsCurrent ==
  drifted /\ ~blind =>
    /\ pc \in {"orders", "broker", "judge"} => snap.position = position
    /\ pc \in {"broker", "judge"} => snap.orders = LocalOrders
    /\ pc = "judge" => snap.broker = lots

GateInv == (drifted => Drift) /\ ReadIsCurrent /\ DriftClosesGate

(* A drift is at least one severe mismatch.                                 *)
LEMMA DriftIsMismatch ==
  ASSUME BooksInv, Drift, snap.position = position, snap.orders = LocalOrders,
         snap.broker = lots
  PROVE  Mismatches(working) # 0
<1>1. IsFiniteSet(Difference(working, snap.orders))
  <2>1. Difference(working, snap.orders) \subseteq Orders
    BY DEF BooksInv, TypeOK, Difference
  <2> QED
    BY <2>1, DaemonAssumption, FS_Subset
<1>2. Cardinality(Difference(working, snap.orders)) \in Nat
  BY <1>1, FS_CardinalityType
<1>3. CASE Held(position) # Held(lots)
  BY <1>2, <1>3 DEF Mismatches, PositionMismatches, StaleMismatches
<1>4. CASE LocalOrders # working
  <2>1. Difference(working, snap.orders) # {}
    BY <1>4 DEF Difference
  <2>2. Cardinality(Difference(working, snap.orders)) # 0
    BY <1>1, <2>1, FS_EmptySet
  <2> QED
    BY <1>2, <2>2 DEF Mismatches, PositionMismatches, StaleMismatches
<1> QED
  BY <1>3, <1>4 DEF Drift

(* Steps that write neither the books nor the account keep the drift.       *)
LEMMA DriftStays ==
  ASSUME UNCHANGED <<trade, position, lots, working>>
  PROVE  (Drift' <=> Drift) /\ LocalOrders' = LocalOrders
BY DEF Drift, LocalOrders

LEMMA ReconcileKeepsGate ==
  ASSUME BooksInv, GateInv, Reconcile \/ LocalUnreadable \/ BrokerUnreadable
  PROVE  GateInv'
<1> USE DEF GateInv, ReadIsCurrent, DriftClosesGate, GateSteps, BookSteps, GoTo, Reconciled,
            books, account, switch, past
<1>1. CASE ReadLocalPositions
  BY <1>1, DriftStays DEF ReadLocalPositions, EmptySnap
<1>2. CASE ReadLocalOrders
  BY <1>2, DriftStays DEF ReadLocalOrders, BooksInv, TypeOK
<1>3. CASE ReadBrokerPositions
  BY <1>3, DriftStays DEF ReadBrokerPositions, BooksInv, TypeOK
<1>4. CASE Judge
  <2>1. drifted /\ ~blind => Mismatches(working) # 0
    BY <1>4, DriftIsMismatch DEF Judge
  <2> QED
    BY <1>4, <2>1, DriftStays DEF Judge
<1>5. CASE LocalUnreadable
  BY <1>5, DriftStays DEF LocalUnreadable
<1>6. CASE BrokerUnreadable
  BY <1>6, DriftStays DEF BrokerUnreadable
<1> QED
  BY <1>1, <1>2, <1>3, <1>4, <1>5, <1>6 DEF Reconcile

(* Every write of the books or the account ends the history of the drift.   *)
LEMMA WritesKeepGate ==
  ASSUME GateInv,
         \/ OpenTrade \/ SubmitTrade \/ FillTrade \/ WritePosition
         \/ Broker \/ \E o \in Foreign : ForeignFill(o)
  PROVE  GateInv'
<1>1. drifted' = FALSE \/ UNCHANGED <<trade, position, lots, working, drifted, pc, snap, gate, blind>>
  BY DEF OpenTrade, SubmitTrade, FillTrade, SetTrade, WritePosition, Broker, BrokerAccepts,
         BrokerRefuses, BrokerFills, BrokerCancels, BrokerOnly, ForeignFill, books
<1> QED
  BY <1>1, DriftStays DEF GateInv, ReadIsCurrent, DriftClosesGate

(* The other steps leave the reconciliation's view alone, or the gate shut. *)
LEMMA OthersKeepGate ==
  ASSUME GateInv,
         \/ Start \/ Age \/ BeginCycles \/ EndCycles \/ Escape \/ Terminate \/ Crash
         \/ \E o \in Orders \ Foreign : PlaceOrder(o)
         \/ Refuse \/ Throttled \/ Send \/ HearFill \/ HearNoFill \/ TimeOut
         \/ ReadPosition \/ Abandon
  PROVE  GateInv'
<1> USE DEF GateInv, ReadIsCurrent, DriftClosesGate, GateSteps, BookSteps, GoTo, Drop, Confirm,
            books, account, switch, past
<1>1. UNCHANGED <<trade, position, lots, working>>
  BY DEF Start, Age, BeginCycles, EndCycles, Escape, Terminate, Crash, PlaceOrder, Refuse,
         Throttled, Send, HearFill, HearNoFill, TimeOut, ReadPosition, Abandon
<1>2. CASE Start \/ Age
  BY <1>1, <1>2, DriftStays DEF Start, Age
<1>3. CASE BeginCycles \/ EndCycles
  BY <1>1, <1>3, DriftStays DEF BeginCycles, EndCycles
<1>4. CASE Escape \/ Terminate \/ Crash
  BY <1>1, <1>4, DriftStays DEF Escape, Terminate, Crash
<1>5. CASE \E o \in Orders \ Foreign : PlaceOrder(o)
  BY <1>1, <1>5, DriftStays DEF PlaceOrder
<1>6. CASE Refuse \/ Throttled \/ Send \/ TimeOut
  BY <1>1, <1>6, DriftStays DEF Refuse, Throttled, Send, TimeOut
<1>7. CASE HearFill \/ HearNoFill \/ ReadPosition \/ Abandon
  BY <1>1, <1>7, DriftStays DEF HearFill, HearNoFill, ReadPosition, Abandon
<1> QED
  BY <1>2, <1>3, <1>4, <1>5, <1>6, <1>7

(* DriftClosesGate: whatever the books and the account hold, a drift that a *)
(* reconciliation saw and that is there still has closed the gate.          *)
THEOREM DriftStopsOrders == Spec => []DriftClosesGate
<1>1. Init => BooksInv /\ GateInv
  BY InitBooks DEF Init, GateInv, ReadIsCurrent, DriftClosesGate
<1>2. BooksInv /\ GateInv /\ [Next]_vars => BooksInv' /\ GateInv'
  <2> SUFFICES ASSUME BooksInv, GateInv, [Next]_vars PROVE BooksInv' /\ GateInv'
    OBVIOUS
  <2>1. UNCHANGED vars => GateInv'
    BY DriftStays DEF vars, books, account, past, GateInv, ReadIsCurrent, DriftClosesGate
  <2>2. Next => GateInv'
    BY ReconcileKeepsGate, WritesKeepGate, OthersKeepGate DEF Next, Thread, Booking
  <2> QED
    BY <2>1, <2>2, NextBooks
<1>3. GateInv => DriftClosesGate
  BY DEF GateInv
<1> QED
  BY <1>1, <1>2, <1>3, PTL DEF Spec

-----------------------------------------------------------------------------
(* Where a drift can come from.  Unless it is excused, every order but the  *)
(* one in hand is booked as the broker has filled it, and the one in hand   *)
(* is being booked with the whole of its fill.                              *)
OthersClean ==
  \A o \in Orders \ {hand.order} :
    position[o] = lots[o] /\ o \notin working \cup wire /\ trade[o] # "submitted"

HandClean ==
  /\ pc \in BookSteps => hand.got = Full /\ lots[hand.order] = Full
  /\ pc = "write" => hand.row = position

CleanInv == ~excused => OthersClean /\ HandClean

(* Without an order in hand everything is clean, and clean is no drift.     *)
LEMMA CleanIsNoDrift ==
  ASSUME BooksInv, CleanInv
  PROVE  DriftOnlyByKnownCauses
<1> SUFFICES ASSUME pc \in ReconcileSteps \cup {"loop", "cycles"}, ~excused
             PROVE  ~Drift
  BY DEF DriftOnlyByKnownCauses
<1>1. hand.order = NoOrder
  BY DEF BooksInv, HandTyped, IdleSteps, EmptyHand
<1>2. \A o \in Orders : position[o] = lots[o] /\ o \notin working /\ trade[o] # "submitted"
  BY <1>1, DaemonAssumption DEF CleanInv, OthersClean
<1>3. position = lots
  BY <1>2 DEF BooksInv, TypeOK, Book
<1>4. LocalOrders = {} /\ working = {}
  BY <1>2 DEF LocalOrders, BooksInv, TypeOK
<1> QED
  BY <1>3, <1>4 DEF Drift

(* Steps that leave the books, the account and the order in hand alone.     *)
LEMMA IdleKeepsClean ==
  ASSUME BooksInv, CleanInv,
         \/ Start \/ Age \/ Reconcile \/ LocalUnreadable \/ BrokerUnreadable
         \/ BeginCycles \/ EndCycles \/ Escape
  PROVE  CleanInv'
<1> USE DEF CleanInv, OthersClean, HandClean, BookSteps, GoTo, Reconciled, books, account,
            switch, past
<1>1. UNCHANGED <<trade, position, wire, lots, working, hand, excused>>
  BY DEF Start, Age, Reconcile, ReadLocalPositions, ReadLocalOrders, ReadBrokerPositions, Judge,
         LocalUnreadable, BrokerUnreadable, BeginCycles, EndCycles, Escape
<1>2. pc' = pc \/ pc' \notin BookSteps
  BY DEF Start, Age, Reconcile, ReadLocalPositions, ReadLocalOrders, ReadBrokerPositions, Judge,
         LocalUnreadable, BrokerUnreadable, BeginCycles, EndCycles, Escape
<1> QED
  BY <1>1, <1>2

(* An order that is dropped before it was sent has left no trace; dropping  *)
(* it later, and dying with it, are excused.                                *)
LEMMA DropKeepsClean ==
  ASSUME BooksInv, CleanInv,
         Refuse \/ Throttled \/ HearNoFill \/ TimeOut \/ Abandon \/ Terminate \/ Crash
  PROVE  CleanInv'
<1> USE DEF CleanInv, OthersClean, HandClean, BookSteps, GoTo, Drop, Confirm, EmptyHand,
            books, account, switch, past
<1>1. CASE Refuse \/ Throttled
  <2>1. UNCHANGED <<trade, position, wire, lots, working, excused>> /\ pc = "send" /\ pc' = "cycles"
    BY <1>1 DEF Refuse, Throttled
  <2>2. /\ position[hand.order] = lots[hand.order] /\ hand.order \notin working \cup wire
        /\ trade[hand.order] # "submitted"
    BY <2>1 DEF BooksInv, HandBooked, HandSteps
  <2> QED
    BY <2>1, <2>2
<1>2. CASE HearNoFill \/ TimeOut \/ Abandon
  BY <1>2 DEF HearNoFill, TimeOut, Abandon
<1>3. CASE Terminate \/ Crash
  <2>1. UNCHANGED <<trade, position, wire, lots, working>> /\ pc' = "down"
        /\ excused' = (excused \/ hand.order # NoOrder) /\ hand'.order = NoOrder
    BY <1>3 DEF Terminate, Crash
  <2> QED
    BY <2>1
<1> QED
  BY <1>1, <1>2, <1>3

LEMMA SubmitKeepsClean ==
  ASSUME BooksInv, CleanInv,
         (\E o \in Orders \ Foreign : PlaceOrder(o)) \/ Send \/ HearFill
  PROVE  CleanInv'
<1> USE DEF CleanInv, OthersClean, HandClean, BookSteps, GoTo, Confirm, books, account,
            switch, past
<1>1. CASE \E o \in Orders \ Foreign : PlaceOrder(o)
  <2>1. hand.order = NoOrder
    BY <1>1 DEF PlaceOrder, BooksInv, HandTyped, IdleSteps, EmptyHand
  <2>2. UNCHANGED <<trade, position, wire, lots, working, excused>> /\ pc' = "send"
    BY <1>1 DEF PlaceOrder
  <2> QED
    BY <2>1, <2>2, DaemonAssumption
<1>2. CASE Send
  BY <1>2 DEF Send
<1>3. CASE HearFill
  <2>1. PICK q \in 1..lots[hand.order] : hand' = [hand EXCEPT !.got = q]
                                        /\ excused' = (excused \/ q < Full)
    BY <1>3 DEF HearFill
  <2>2. hand.order \in Orders /\ lots[hand.order] \in 0..Full
    BY <1>3 DEF HearFill, BooksInv, TypeOK, HandTyped, HandSteps, Book
  <2>3. hand'.order = hand.order /\ hand'.got = q
    BY <2>1 DEF BooksInv, TypeOK
  <2>4. ~excused' => ~(q < Full)
    BY <2>1, Zenon
  <2>5. ~(q < Full) => q = Full /\ lots[hand.order] = Full
    BY <2>2 DEF Full
  <2>6. ~excused' => q = Full /\ lots[hand.order] = Full
    BY <2>4, <2>5
  <2>7. UNCHANGED <<trade, position, wire, lots, working>> /\ pc' = "open"
    BY <1>3 DEF HearFill
  <2> QED
    BY <2>1, <2>3, <2>6, <2>7
<1> QED
  BY <1>1, <1>2, <1>3

LEMMA BookKeepsClean ==
  ASSUME BooksInv, CleanInv, Booking
  PROVE  CleanInv'
<1> USE DEF CleanInv, OthersClean, HandClean, BookSteps, GoTo, books, account, switch, past
<1>1. hand.order \in Orders
  BY DEF Booking, OpenTrade, SubmitTrade, FillTrade, SetTrade, ReadPosition, WritePosition,
         BooksInv, HandTyped, HandSteps
<1>2. CASE OpenTrade \/ SubmitTrade \/ FillTrade
  <2>1. UNCHANGED <<position, wire, lots, working, hand, excused>> /\ pc \in BookSteps
        /\ pc' \in BookSteps \ {"write"} /\ \A o \in Orders \ {hand.order} : trade'[o] = trade[o]
    BY <1>1, <1>2 DEF OpenTrade, SubmitTrade, FillTrade, SetTrade, BooksInv, TypeOK
  <2> QED
    BY <2>1
<1>3. CASE ReadPosition
  <2>1. UNCHANGED <<trade, position, wire, lots, working, excused>> /\ hand'.row = position
        /\ hand'.order = hand.order /\ hand'.got = hand.got /\ pc \in BookSteps
    BY <1>3 DEF ReadPosition, BooksInv, TypeOK
  <2> QED
    BY <2>1
<1>4. CASE WritePosition
  <2> SUFFICES ASSUME ~excused'
               PROVE  OthersClean' /\ HandClean'
    OBVIOUS
  <2>1. ~excused /\ pc = "write" /\ pc' = "cycles" /\ UNCHANGED <<trade, wire, lots, working>>
        /\ hand'.order = NoOrder
    BY <1>4 DEF WritePosition, Drop, EmptyHand
  <2>2. hand.row = position /\ hand.got = Full /\ lots[hand.order] = Full
    BY <2>1
  <2>3. position[hand.order] = 0 /\ trade[hand.order] = "filled"
    BY <2>1 DEF BooksInv, HandBooked, HandSteps
  <2>4. position' = [position EXCEPT ![hand.order] = position[hand.order] + Full]
    BY <1>4, <2>2 DEF WritePosition, PositionAfter
  <2>5. position'[hand.order] = lots[hand.order]
        /\ \A o \in Orders \ {hand.order} : position'[o] = position[o]
    BY <1>1, <2>2, <2>3, <2>4 DEF BooksInv, TypeOK, Book, Full
  <2>6. hand.order \notin working \cup wire
    BY <1>1, <2>2 DEF BooksInv, WireBeforeFill, Full
  <2> QED
    BY <2>1, <2>3, <2>5, <2>6
<1> QED
  BY <1>2, <1>3, <1>4 DEF Booking

(* The broker only ever acts on the order in hand, and on no order that is  *)
(* filled.                                                                  *)
LEMMA BrokerKeepsClean ==
  ASSUME BooksInv, CleanInv, Broker
  PROVE  CleanInv'
<1> USE DEF CleanInv, OthersClean, HandClean, BrokerOnly, books, switch
<1>1. PICK o \in Orders : (\E q \in 0..Full : BrokerAccepts(o, q)) \/ BrokerRefuses(o)
                         \/ BrokerFills(o) \/ BrokerCancels(o)
  BY DEF Broker
<1>2. UNCHANGED <<trade, position, hand, pc, excused>>
  BY <1>1 DEF BrokerAccepts, BrokerRefuses, BrokerFills, BrokerCancels
<1>3. o \in wire \cup working
  BY <1>1 DEF BrokerAccepts, BrokerRefuses, BrokerFills, BrokerCancels
<1>4. \A p \in Orders \ {o} : lots'[p] = lots[p] /\ (p \in wire' => p \in wire)
                              /\ (p \in working' => p \in working)
  BY <1>1 DEF BrokerAccepts, BrokerRefuses, BrokerFills, BrokerCancels, BooksInv, TypeOK, Book
<1>5. ~excused => o = hand.order
  BY <1>3
<1>6. ~excused => pc \notin BookSteps
  BY <1>3, <1>5 DEF BooksInv, WireBeforeFill, Full
<1> QED
  BY <1>2, <1>4, <1>5, <1>6 DEF BookSteps

(* DriftOnlyByKnownCauses: a daemon that nothing interrupted and nobody     *)
(* disturbed has the broker's own books between two orders.                 *)
THEOREM DriftCauses == Spec => []DriftOnlyByKnownCauses
<1>1. Init => BooksInv /\ CleanInv
  BY InitBooks DEF Init, CleanInv, OthersClean, HandClean, Flat, BookSteps
<1>2. BooksInv /\ CleanInv /\ [Next]_vars => BooksInv' /\ CleanInv'
  <2> SUFFICES ASSUME BooksInv, CleanInv, [Next]_vars PROVE BooksInv' /\ CleanInv'
    OBVIOUS
  <2>1. UNCHANGED vars => CleanInv'
    BY DEF vars, books, account, past, CleanInv, OthersClean, HandClean
  <2>2. (\E o \in Foreign : ForeignFill(o)) => CleanInv'
    BY DEF ForeignFill, CleanInv
  <2>3. Next => CleanInv'
    BY <2>2, IdleKeepsClean, DropKeepsClean, SubmitKeepsClean, BookKeepsClean, BrokerKeepsClean
       DEF Next, Thread
  <2> QED
    BY <2>1, <2>3, NextBooks
<1>3. BooksInv /\ CleanInv => DriftOnlyByKnownCauses
  BY CleanIsNoDrift
<1> QED
  BY <1>1, <1>2, <1>3, PTL DEF Spec

-----------------------------------------------------------------------------
(* Fail-over, for every set of daemons and every stale_after.               *)
(*                                                                          *)
(* Why at most one leads, lapses and races apart: while somebody has the    *)
(* lease it is live, so nobody who reads it afterwards takes it, and whoever*)
(* read it before is no longer fresh.  The owner written in the lease plays *)
(* no part: a late renewal by a stopped daemon may put a wrong one there.   *)

(* While somebody has the lease, it is one daemon and the lease is live.    *)
OneLeaderOnLiveLease ==
  ~raced /\ ~lapsed =>
    \A n, m \in Nodes : Ha!Owns(n) /\ Ha!Owns(m) => n = m /\ Ha!LeaseIsValid

(* What a daemon saw free and has not changed since is still free.          *)
FreshIsFree == \A n \in Nodes : thread[n] = "append" /\ fresh[n] => ~Ha!LeaseIsValid

(* Past the leadership check, a daemon leads or has been stopped.           *)
PastCheck ==
  \A n \in Nodes : thread[n] \in {"renew", "lead", "trading"} => leading[n] \/ ~running[n]

(* Who is about to lead does not lead yet; who releases is stopped, and as  *)
(* long as the lease is as it released it, it says so.                      *)
Taking == \A n \in Nodes : thread[n] \in {"read", "append", "acquired"} => ~leading[n]
Releasing ==
  \A n \in Nodes :
    releasing[n] => leading[n] /\ ~running[n] /\ (fresh[n] => lease.action = "release")

LeaseInv ==
  Ha!TypeOK /\ OneLeaderOnLiveLease /\ FreshIsFree /\ PastCheck /\ Taking /\ Releasing

LEMMA LeaseInitInv == Ha!Init => LeaseInv
<1> SUFFICES ASSUME Ha!Init PROVE LeaseInv
  OBVIOUS
<1> USE StaleAssumption DEF Ha!Init
<1>1. lease \in [action : Ha!Actions, age : 0..(StaleAfter + 1)]
  BY DEF Ha!Actions
<1>2. Ha!TypeOK
  BY <1>1 DEF Ha!TypeOK, Ha!Steps
<1>3. OneLeaderOnLiveLease /\ FreshIsFree /\ PastCheck /\ Taking /\ Releasing
  BY DEF OneLeaderOnLiveLease, FreshIsFree, PastCheck, Taking, Releasing, Ha!Owns
<1> QED BY <1>2, <1>3 DEF LeaseInv

LEMMA LeaseTypeStep ==
  ASSUME Ha!TypeOK, [Ha!Next]_Ha!vars
  PROVE  Ha!TypeOK'
<1> USE DEF Ha!TypeOK, Ha!Steps, Ha!GoTo
<1>1. \A a \in Ha!Actions : [action |-> a, age |-> 0] \in [action : Ha!Actions, age : 0..(StaleAfter + 1)]
  BY StaleAssumption
<1>2. "renew" \in Ha!Actions /\ "release" \in Ha!Actions /\ "acquire" \in Ha!Actions
  BY DEF Ha!Actions
<1>3. ASSUME NEW n \in Nodes,
             \/ Ha!Start(n) \/ Ha!Boot(n) \/ Ha!Started(n) \/ Ha!Deadline(n) \/ Ha!LoopTop(n) \/ Ha!Standby(n)
             \/ Ha!SeeFree(n) \/ Ha!BeginCycle(n) \/ Ha!EndCycle(n) \/ Ha!NextIteration(n)
      PROVE  Ha!TypeOK'
  <2> USE DEF Ha!Start, Ha!Boot, Ha!Started, Ha!Deadline, Ha!LoopTop, Ha!Standby, Ha!SeeFree,
              Ha!BeginCycle, Ha!EndCycle, Ha!NextIteration
  <2>1. UNCHANGED <<lease, leading, releasing, raced, lapsed>>
    BY <1>3
  <2>2. thread' \in [Nodes -> Ha!Steps]
    BY <1>3
  <2>3. /\ running' \in [Nodes -> BOOLEAN] /\ fresh' \in [Nodes -> BOOLEAN]
        /\ shutdown' \in [Nodes -> {"no", "draining", "expired"}]
    BY <1>3
  <2> QED BY <2>1, <2>2, <2>3
<1>4. ASSUME NEW n \in Nodes, Ha!Exit(n) \/ Ha!Crash(n) PROVE Ha!TypeOK'
  BY <1>4 DEF Ha!Exit, Ha!Crash, Ha!Die
<1>5. ASSUME NEW n \in Nodes, Ha!Signal(n) PROVE Ha!TypeOK'
  <2>1. lease' \in [action : Ha!Actions, age : 0..(StaleAfter + 1)]
    BY <1>1, <1>2, <1>5 DEF Ha!Signal
  <2>2. fresh' \in [Nodes -> BOOLEAN]
    BY <1>5 DEF Ha!Signal
  <2>3. releasing' \in [Nodes -> BOOLEAN] /\ running' \in [Nodes -> BOOLEAN] /\ raced' \in BOOLEAN
    BY <1>5 DEF Ha!Signal
  <2>4. shutdown' \in [Nodes -> {"no", "draining", "expired"}]
    BY <1>5 DEF Ha!Signal
  <2> QED BY <1>5, <2>1, <2>2, <2>3, <2>4 DEF Ha!Signal
<1>6. ASSUME NEW n \in Nodes, Ha!Renew(n) \/ Ha!Acquire(n) PROVE Ha!TypeOK'
  <2>1. lease' \in [action : Ha!Actions, age : 0..(StaleAfter + 1)]
    BY <1>1, <1>2, <1>6 DEF Ha!Renew, Ha!Acquire, Ha!Append
  <2>2. fresh' \in [Nodes -> BOOLEAN] /\ raced' \in BOOLEAN
    BY <1>6 DEF Ha!Renew, Ha!Acquire, Ha!Append
  <2> QED BY <1>6, <2>1, <2>2 DEF Ha!Renew, Ha!Acquire
<1>7. ASSUME NEW n \in Nodes, Ha!Released(n) \/ Ha!Acquired(n) PROVE Ha!TypeOK'
  BY <1>7 DEF Ha!Released, Ha!Acquired
<1>8. CASE Ha!Tick
  <2>1. lease' \in [action : Ha!Actions, age : 0..(StaleAfter + 1)]
    BY <1>8, StaleAssumption DEF Ha!Tick
  <2>2. lapsed' \in BOOLEAN
    BY <1>8 DEF Ha!Tick
  <2> QED BY <1>8, <2>1, <2>2 DEF Ha!Tick
<1>9. CASE UNCHANGED Ha!vars
  BY <1>9 DEF Ha!vars
<1> QED BY <1>3, <1>4, <1>5, <1>6, <1>7, <1>8, <1>9 DEF Ha!Next, Ha!Thread

(* What a step has to keep beside the types.                                *)
Rest == OneLeaderOnLiveLease /\ FreshIsFree /\ PastCheck /\ Taking /\ Releasing

(* Steps that leave the lease, the histories and who leads as they are.     *)
Quiet == UNCHANGED <<lease, leading, releasing, fresh, raced, lapsed>>

LEMMA QuietStep ==
  ASSUME LeaseInv, NEW n \in Nodes,
         \/ Ha!Start(n) \/ Ha!Boot(n) \/ Ha!Started(n) \/ Ha!Deadline(n) \/ Ha!LoopTop(n) \/ Ha!Standby(n)
         \/ Ha!BeginCycle(n) \/ Ha!EndCycle(n) \/ Ha!NextIteration(n)
  PROVE  Rest'
<1> USE DEF LeaseInv, Ha!TypeOK, Ha!At
<1>1. Quiet
  BY DEF Quiet, Ha!Start, Ha!Boot, Ha!Started, Ha!Deadline, Ha!LoopTop, Ha!Standby, Ha!BeginCycle,
     Ha!EndCycle, Ha!NextIteration
<1>2. \A m \in Nodes : /\ thread'[m] = "append" => thread[m] = "append"
                       /\ thread'[m] = "acquired" => thread[m] = "acquired"
                       /\ thread'[m] = "read" => thread[m] = "read" \/ ~leading[m]
  BY DEF Ha!Start, Ha!Boot, Ha!Started, Ha!Deadline, Ha!LoopTop, Ha!Standby, Ha!BeginCycle, Ha!EndCycle,
     Ha!NextIteration, Ha!GoTo, Ha!Steps
<1>3. OneLeaderOnLiveLease'
  BY <1>1, <1>2 DEF Quiet, OneLeaderOnLiveLease, Ha!LeaseIsValid, Ha!Owns
<1>4. FreshIsFree' /\ Taking'
  BY <1>1, <1>2 DEF Quiet, FreshIsFree, Taking, Ha!LeaseIsValid
<1>5. PastCheck'
  BY DEF PastCheck, Ha!Start, Ha!Boot, Ha!Started, Ha!Deadline, Ha!LoopTop, Ha!Standby, Ha!BeginCycle,
     Ha!EndCycle, Ha!NextIteration, Ha!GoTo, Ha!Steps
<1>6. \A m \in Nodes : releasing[m] => running'[m] = running[m]
  BY DEF Ha!Start, Ha!Boot, Ha!Started, Ha!Deadline, Ha!LoopTop, Ha!Standby, Ha!BeginCycle, Ha!EndCycle,
     Ha!NextIteration
<1>7. Releasing'
  BY <1>1, <1>6 DEF Quiet, Releasing
<1> QED BY <1>3, <1>4, <1>5, <1>7 DEF Rest

(* A process that ends leads no more and leaves the lease alone.            *)
LEMMA DieStep ==
  ASSUME LeaseInv, NEW n \in Nodes, Ha!Exit(n) \/ Ha!Crash(n)
  PROVE  Rest'
<1> USE DEF LeaseInv, Ha!TypeOK
<1>1. Ha!Die(n)
  BY DEF Ha!Exit, Ha!Crash
<1>2. OneLeaderOnLiveLease'
  BY <1>1 DEF Ha!Die, Ha!GoTo, OneLeaderOnLiveLease, Ha!LeaseIsValid, Ha!Owns, Ha!Steps
<1>3. FreshIsFree' /\ PastCheck' /\ Taking'
  BY <1>1 DEF Ha!Die, Ha!GoTo, FreshIsFree, PastCheck, Taking, Ha!LeaseIsValid, Ha!Steps
<1>4. Releasing'
  BY <1>1 DEF Ha!Die, Releasing
<1> QED BY <1>2, <1>3, <1>4 DEF Rest

(* The stop signal: the release is written by the only daemon that has the  *)
(* lease, or, by a second signal, on a lease that nobody has.               *)
LEMMA SignalStep ==
  ASSUME LeaseInv, NEW n \in Nodes, Ha!Signal(n)
  PROVE  Rest'
<1> USE DEF LeaseInv, Ha!TypeOK, Ha!Signal
<1>1. CASE leading[n]
  <2>1. /\ lease'.action = "release" /\ fresh' = [m \in Nodes |-> m = n]
        /\ releasing' = [releasing EXCEPT ![n] = TRUE] /\ UNCHANGED <<thread, leading, lapsed>>
    BY <1>1
  <2>2. \A m \in Nodes \ {n} : Ha!Owns(m)' <=> Ha!Owns(m)
    BY <2>1 DEF Ha!Owns
  <2>3. ~Ha!Owns(n)'
    BY <1>1, <2>1 DEF Ha!Owns, Taking
  <2>4. ~raced' /\ ~lapsed' => \A m \in Nodes \ {n} : ~Ha!Owns(m)
    <3>1. CASE ~releasing[n]
      <4>1. Ha!Owns(n)
        BY <1>1, <3>1 DEF Ha!Owns
      <4> QED BY <4>1 DEF OneLeaderOnLiveLease
    <3>2. CASE releasing[n] /\ fresh[n]
      <4>1. ~Ha!LeaseIsValid
        BY <3>2 DEF Releasing, Ha!LeaseIsValid
      <4> QED BY <4>1 DEF OneLeaderOnLiveLease
    <3>3. CASE releasing[n] /\ ~fresh[n]
      BY <3>3
    <3> QED BY <3>1, <3>2, <3>3
  <2>5. OneLeaderOnLiveLease'
    BY <2>2, <2>3, <2>4 DEF OneLeaderOnLiveLease
  <2>6. FreshIsFree' /\ PastCheck' /\ Taking'
    BY <1>1, <2>1 DEF FreshIsFree, PastCheck, Taking, Ha!LeaseIsValid
  <2>7. Releasing'
    BY <1>1, <2>1 DEF Releasing
  <2> QED BY <2>5, <2>6, <2>7 DEF Rest
<1>2. CASE ~leading[n]
  <2>1. releasing' = releasing /\ UNCHANGED <<lease, fresh, thread, leading, lapsed>>
    BY <1>2 DEF Releasing
  <2>2. ~releasing[n] /\ (raced' <=> raced)
    BY <1>2 DEF Releasing
  <2>3. OneLeaderOnLiveLease' /\ FreshIsFree' /\ Taking'
    BY <2>1, <2>2 DEF OneLeaderOnLiveLease, FreshIsFree, Taking, Ha!LeaseIsValid, Ha!Owns
  <2>4. PastCheck' /\ Releasing'
    BY <2>1, <2>2 DEF PastCheck, Releasing
  <2> QED BY <2>3, <2>4 DEF Rest
<1> QED BY <1>1, <1>2

(* Who has released the lease had it no more.                               *)
LEMMA ReleasedStep ==
  ASSUME LeaseInv, NEW n \in Nodes, Ha!Released(n)
  PROVE  Rest'
<1> USE DEF LeaseInv, Ha!TypeOK, Ha!Released
<1>1. \A m \in Nodes : Ha!Owns(m)' => Ha!Owns(m)
  BY DEF Ha!Owns
<1>2. OneLeaderOnLiveLease'
  BY <1>1 DEF OneLeaderOnLiveLease, Ha!LeaseIsValid
<1>3. FreshIsFree' /\ Taking' /\ PastCheck' /\ Releasing'
  BY DEF FreshIsFree, Taking, PastCheck, Releasing, Ha!LeaseIsValid
<1> QED BY <1>2, <1>3 DEF Rest

(* A renewal, also one that comes after the release, leaves a live lease.   *)
LEMMA RenewStep ==
  ASSUME LeaseInv, NEW n \in Nodes, Ha!Renew(n)
  PROVE  Rest'
<1> USE StaleAssumption DEF LeaseInv, Ha!TypeOK, Ha!Renew, Ha!Append, Ha!GoTo, Ha!At
<1>1. OneLeaderOnLiveLease'
  BY DEF OneLeaderOnLiveLease, Ha!LeaseIsValid, Ha!Owns, Ha!Steps
<1>2. FreshIsFree' /\ PastCheck' /\ Taking' /\ Releasing'
  BY DEF FreshIsFree, PastCheck, Taking, Releasing, Ha!Steps
<1> QED BY <1>1, <1>2 DEF Rest

(* Reading a free lease.                                                    *)
LEMMA SeeFreeStep ==
  ASSUME LeaseInv, NEW n \in Nodes, Ha!SeeFree(n)
  PROVE  Rest'
<1> USE DEF LeaseInv, Ha!TypeOK, Ha!SeeFree, Ha!GoTo, Ha!At
<1>1. UNCHANGED <<lease, leading, releasing, running, raced, lapsed>>
  OBVIOUS
<1>2. OneLeaderOnLiveLease'
  BY <1>1 DEF OneLeaderOnLiveLease, Ha!LeaseIsValid, Ha!Owns, Ha!Steps
<1>3. FreshIsFree' /\ PastCheck' /\ Taking'
  BY <1>1 DEF FreshIsFree, PastCheck, Taking, Ha!LeaseIsValid, Ha!Steps
<1>4. Releasing'
  BY <1>1 DEF Releasing
<1> QED BY <1>2, <1>3, <1>4 DEF Rest

(* Acquiring: on a fresh reading nobody had it; otherwise it is a race.     *)
LEMMA AcquireStep ==
  ASSUME LeaseInv, NEW n \in Nodes, Ha!Acquire(n)
  PROVE  Rest'
<1> USE StaleAssumption DEF LeaseInv, Ha!TypeOK, Ha!Acquire, Ha!Append, Ha!GoTo, Ha!At
<1>1. \A m \in Nodes \ {n} : Ha!Owns(m)' <=> Ha!Owns(m)
  BY DEF Ha!Owns
<1>2. Ha!LeaseIsValid'
  BY DEF Ha!LeaseIsValid
<1>3. OneLeaderOnLiveLease'
  <2>1. CASE fresh[n]
    <3>1. ~Ha!LeaseIsValid
      BY <2>1 DEF FreshIsFree
    <3>2. ~raced /\ ~lapsed => \A m \in Nodes : ~Ha!Owns(m)
      BY <3>1 DEF OneLeaderOnLiveLease
    <3> QED BY <1>1, <1>2, <3>2, <2>1 DEF OneLeaderOnLiveLease
  <2>2. CASE ~fresh[n]
    <3>1. raced'
      BY <2>2
    <3> QED BY <3>1 DEF OneLeaderOnLiveLease
  <2> QED BY <2>1, <2>2
<1>4. FreshIsFree' /\ PastCheck' /\ Taking' /\ Releasing'
  BY DEF FreshIsFree, PastCheck, Taking, Releasing, Ha!Steps
<1> QED BY <1>3, <1>4 DEF Rest

(* Who has acquired the lease begins to lead.                               *)
LEMMA AcquiredStep ==
  ASSUME LeaseInv, NEW n \in Nodes, Ha!Acquired(n)
  PROVE  Rest'
<1> USE DEF LeaseInv, Ha!TypeOK, Ha!Acquired, Ha!GoTo, Ha!At
<1>1. \A m \in Nodes : Ha!Owns(m)' <=> Ha!Owns(m)
  BY DEF Ha!Owns
<1>2. OneLeaderOnLiveLease'
  BY <1>1 DEF OneLeaderOnLiveLease, Ha!LeaseIsValid
<1>3. FreshIsFree' /\ PastCheck' /\ Taking' /\ Releasing'
  BY DEF FreshIsFree, PastCheck, Taking, Releasing, Ha!LeaseIsValid, Ha!Steps
<1> QED BY <1>2, <1>3 DEF Rest

(* Time: a lease that goes stale under its daemon is a lapse.               *)
LEMMA TickStep ==
  ASSUME LeaseInv, Ha!Tick
  PROVE  Rest'
<1>1. lease'.action = lease.action /\ lease'.age = lease.age + 1
  <2>1. lease \in [action : Ha!Actions, age : 0..(StaleAfter + 1)]
    BY DEF LeaseInv, Ha!TypeOK
  <2>2. lease' = [lease EXCEPT !.age = @ + 1]
    BY DEF Ha!Tick
  <2> QED BY <2>1, <2>2
<1>2. lease.age \in Nat /\ StaleAfter \in Nat /\ UNCHANGED <<thread, running, leading, releasing, fresh, raced>>
  BY StaleAssumption DEF LeaseInv, Ha!TypeOK, Ha!Tick
<1>3. \A n \in Nodes : Ha!Owns(n)' <=> Ha!Owns(n)
  BY <1>2 DEF Ha!Owns
<1>4. ~lapsed' => ~lapsed /\ (lease.age # StaleAfter \/ \A n \in Nodes : ~Ha!Owns(n))
  BY DEF Ha!Tick
<1>5. lease.age # StaleAfter /\ Ha!LeaseIsValid => Ha!LeaseIsValid'
  BY <1>1, <1>2 DEF Ha!LeaseIsValid
<1>6. OneLeaderOnLiveLease'
  BY <1>2, <1>3, <1>4, <1>5 DEF LeaseInv, OneLeaderOnLiveLease
<1>7. ~Ha!LeaseIsValid => ~Ha!LeaseIsValid'
  BY <1>1, <1>2 DEF Ha!LeaseIsValid
<1>8. FreshIsFree' /\ PastCheck' /\ Taking' /\ Releasing'
  BY <1>1, <1>2, <1>7 DEF LeaseInv, FreshIsFree, PastCheck, Taking, Releasing
<1> QED BY <1>6, <1>8 DEF Rest

LEMMA LeaseNextInv ==
  ASSUME LeaseInv, [Ha!Next]_Ha!vars
  PROVE  LeaseInv'
<1>1. Ha!TypeOK'
  BY LeaseTypeStep DEF LeaseInv
<1>2. ASSUME NEW n \in Nodes, Ha!Thread(n) \/ Ha!BeginCycle(n) PROVE Rest'
  BY <1>2, QuietStep, DieStep, RenewStep, SeeFreeStep, AcquireStep, AcquiredStep, ReleasedStep
     DEF Ha!Thread
<1>3. ASSUME NEW n \in Nodes, Ha!Start(n) \/ Ha!Signal(n) \/ Ha!Deadline(n) \/ Ha!Crash(n) PROVE Rest'
  BY <1>3, QuietStep, DieStep, SignalStep
<1>4. ASSUME Ha!Tick PROVE Rest'
  BY <1>4, TickStep
<1>5. ASSUME UNCHANGED Ha!vars PROVE Rest'
  BY <1>5 DEF Ha!vars, LeaseInv, Rest, OneLeaderOnLiveLease, FreshIsFree, PastCheck, Taking, Releasing,
     Ha!LeaseIsValid, Ha!Owns
<1> QED BY <1>1, <1>2, <1>3, <1>4, <1>5 DEF Ha!Next, LeaseInv, Rest

LEMMA LeaseInvariance == Ha!Spec => []LeaseInv
<1>1. Ha!Init => LeaseInv
  BY LeaseInitInv
<1>2. LeaseInv /\ [Ha!Next]_Ha!vars => LeaseInv'
  BY LeaseNextInv
<1> QED BY <1>1, <1>2, PTL DEF Ha!Spec

(* Split brain needs a lapse of the lease, two overlapping acquisitions or  *)
(* a second signal in the middle of a release, for any number of daemons    *)
(* and apart from who is inside release() (try_acquire_leadership).         *)
THEOREM SplitBrainCauses == Ha!Spec => []SplitBrainOnlyByLapseOrRace
<1>1. LeaseInv => SplitBrainOnlyByLapseOrRace
  <2> DEFINE L == {n \in Nodes : leading[n] /\ ~releasing[n]}
  <2> SUFFICES ASSUME LeaseInv, ~raced, ~lapsed PROVE Cardinality(L) <= 1
    <3>1. Ha!Cardinality(L) = Cardinality(L)
      BY DEF Ha!Cardinality, Cardinality
    <3> QED BY <3>1 DEF SplitBrainOnlyByLapseOrRace, Ha!SplitBrainOnlyByLapseOrRace
  <2>1. CASE L = {}
    BY <2>1, FS_EmptySet
  <2>2. CASE L # {}
    <3>1. PICK n : n \in L
      BY <2>2
    <3>2. L = {n}
      BY <3>1 DEF LeaseInv, OneLeaderOnLiveLease, Ha!Owns
    <3> HIDE DEF L
    <3>3. Cardinality(L) = 1
      BY <3>2, FS_Singleton
    <3> QED BY <3>3
  <2> QED BY <2>1, <2>2
<1> QED BY <1>1, LeaseInvariance, PTL

(* Two daemons run cycles at once only for those reasons or while one of    *)
(* them drains (handle_stop releases before the cycle has ended).           *)
THEOREM OverlapCauses == Ha!Spec => [](Ha!TypeOK /\ Ha!OverlapOnlyInDrain)
<1>1. LeaseInv => Ha!TypeOK /\ Ha!OverlapOnlyInDrain
  BY DEF LeaseInv, Ha!OverlapOnlyInDrain, OneLeaderOnLiveLease, PastCheck, Releasing, Ha!Owns
<1> QED BY <1>1, LeaseInvariance, PTL

=============================================================================
