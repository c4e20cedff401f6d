---------------------------- MODULE PaperTrading ----------------------------
(***************************************************************************)
(* The simulated broker of paper mode, PaperBrokerAdapter, with its account, *)
(* position and resting orders, and PortfolioService, which books every fill *)
(* the broker answers.  One symbol; prices are whole numbers and money is    *)
(* counted in hundredths of them.                                           *)
(***************************************************************************)
EXTENDS Integers, Sequences, FiniteSets, FiniteSetsExt

CONSTANTS Capital,     \* account_balance at the start
          Slippage,    \* in hundredths of the price
          Quantities, Prices,
          Trail,       \* trail_percent, in hundredths
          MaxOrders

VARIABLES balance,   \* account_balance
          position,  \* the broker's position, or none of it
          resting,   \* _open_orders: from order to quantity
          seq,       \* _order_seq
          book,      \* the local position
          earned,    \* money made by closing what was held
          oversold   \* money paid for what was not held

vars == <<balance, position, resting, seq, book, earned, oversold>>

Fraction(n, d) == [n |-> n, d |-> d]
Same(x, y) == x.n * y.d = y.n * x.d
Plus(x, y) == IF x.n = 0 THEN y ELSE Fraction(x.n * y.d + y.n * x.d, x.d * y.d)

\* The entry price is money for one; a closed position keeps it.
Position(qty, entry) == [qty |-> qty, entry |-> entry]
Nothing == Position(0, Fraction(0, 1))

Init ==
  /\ balance = 100 * Capital
  /\ position = Nothing /\ book = Nothing
  /\ resting = [o \in {} |-> 0] /\ seq = 0
  /\ earned = Fraction(0, 1) /\ oversold = 0

Sides == {"buy", "sell"}
Signed(side, qty) == IF side = "buy" THEN qty ELSE -qty
FillPrice(side, price) == price * (IF side = "buy" THEN 100 + Slippage ELSE 100 - Slippage)

\* The price that "have" at "entry" and "more" at "price" come to together.
Averaged(entry, have, more, price) ==
  Fraction(have * entry.n + more * price * entry.d, (have + more) * entry.d)

-----------------------------------------------------------------------------
\* _apply_fill: what is sold beyond what is held is paid for, and gone.
ApplyFill(side, qty, price) ==
  LET held == position.qty
      sold == Min({held, qty})
  IN /\ balance' = balance - Signed(side, qty) * price
     /\ position' =
          IF side = "buy"
          THEN Position(held + qty, IF held = 0 THEN Fraction(price, 1)
                                    ELSE Averaged(position.entry, held, qty, price))
          ELSE IF held <= qty THEN Nothing
          ELSE Position(held - qty, position.entry)
     /\ earned' = IF side = "buy" \/ sold = 0 THEN earned
                  ELSE Plus(earned, Fraction(sold * (price * position.entry.d - position.entry.n),
                                             position.entry.d))
     /\ oversold' = oversold + IF side = "sell" THEN (qty - sold) * price ELSE 0

\* Mutant: a sale moves the local entry price too.
BookedEitherWay(side, qty, price) ==
  LET after == book.qty + Signed(side, qty)
  IN IF book = Nothing \/ after = 0 THEN Position(after, Fraction(price, 1))
     ELSE Position(after, Averaged(book.entry, book.qty, Signed(side, qty), price))

\* PortfolioService.fill_trade, which lets a position become negative.
Booked(side, qty, price) ==
  LET after == book.qty + Signed(side, qty)
  IN IF book = Nothing THEN Position(after, Fraction(price, 1))
     ELSE IF side = "buy" /\ after # 0
     THEN Position(after, Averaged(book.entry, book.qty, qty, price))
     ELSE Position(after, book.entry)

NoFill == UNCHANGED <<balance, position, book, earned, oversold>>

\* A buy of exactly the local short raises, a division by zero, after the
\* broker has filled it.
Raises(side, qty) == side = "buy" /\ book # Nothing /\ book.qty + qty = 0
Fill(side, qty, price) ==
  /\ ApplyFill(side, qty, price)
  /\ book' = IF Raises(side, qty) THEN book ELSE Booked(side, qty, price)

Number == seq < MaxOrders /\ seq' = seq + 1
Rest(order, qty) ==
  resting' = [o \in DOMAIN resting \cup {order} |-> IF o = order THEN qty ELSE resting[o]]

\* place_market_order: filled, or filled in part, the rest being recorded as an
\* open order.  "at" is the number the order gets; one that is refused gets
\* none and changes nothing.
Market(side, qty, price, at) ==
  \/ Fill(side, qty, FillPrice(side, price)) /\ UNCHANGED resting
  \/ \E part \in 1 .. qty - 1 :
       Fill(side, part, FillPrice(side, price)) /\ Rest(at, qty - part)

PlaceMarket(side, qty, price) == Number /\ Market(side, qty, price, seq + 1)

\* A marketable limit order is filled at the close, with slippage; one without
\* a close to compare with rests like one that is not.
PlaceLimit(side, qty, limit, close) ==
  /\ Number
  /\ IF (side = "buy" /\ close <= limit) \/ (side = "sell" /\ close >= limit)
     THEN Fill(side, qty, FillPrice(side, close)) /\ UNCHANGED resting
     ELSE Rest(seq + 1, qty) /\ NoFill

\* Stop orders take a number, and another when they are triggered.
Triggered(side, stop, price) ==
  (side = "buy" /\ price >= stop) \/ (side = "sell" /\ price <= stop)
PlaceStop(side, qty, stop, price) ==
  IF Triggered(side, 100 * stop, 100 * price)
  THEN \/ seq + 2 <= MaxOrders /\ seq' = seq + 2 /\ Market(side, qty, price, seq + 2)
       \/ Number /\ UNCHANGED resting /\ NoFill      \* refused
  ELSE Number /\ Rest(seq + 1, qty) /\ NoFill

\* The stop trails the price it is compared with, and so is never reached.
PlaceTrailing(side, qty, price) ==
  LET stop == price * (IF side = "buy" THEN 100 + Trail ELSE 100 - Trail)
  IN /\ ~Triggered(side, stop, 100 * price)
     /\ Number /\ Rest(seq + 1, qty) /\ NoFill

Modify(order, qty) ==
  /\ order \in DOMAIN resting
  /\ Rest(order, qty)
  /\ NoFill /\ UNCHANGED seq
Cancel(order) ==
  /\ order \in DOMAIN resting
  /\ resting' = [o \in DOMAIN resting \ {order} |-> resting[o]]
  /\ NoFill /\ UNCHANGED seq

Place(side, qty, price) ==
  \/ PlaceMarket(side, qty, price) \/ PlaceTrailing(side, qty, price)
  \/ \E other \in Prices : PlaceLimit(side, qty, other, price) \/ PlaceStop(side, qty, other, price)

Next ==
  \/ \E side \in Sides, qty \in Quantities, price \in Prices : Place(side, qty, price)
  \/ \E order \in DOMAIN resting : Cancel(order) \/ \E qty \in Quantities : Modify(order, qty)

Spec == Init /\ [][Next]_vars

-----------------------------------------------------------------------------
\* Money comes from trading only: the account and the cost of what is held are
\* the capital and the profit of what was closed, save what was paid for
\* selling more than there was (paper_trading_service.py:83).
MoneyIsConserved ==
  LET e == position.entry
      assets == Fraction((balance - 100 * Capital - oversold) * e.d + position.qty * e.n, e.d)
  IN Same(assets, earned)

\* The broker's account balances, and until more is sold than held it agrees
\* with the local books on the quantity and on the entry price, although each
\* averages by itself (portfolio_service.py:117, paper_trading_service.py:104).
PaperBooksAgree ==
  /\ MoneyIsConserved
  /\ oversold = 0 =>
       /\ book.qty = position.qty
       /\ position.qty > 0 => Same(book.entry, position.entry)

=============================================================================
