------------------------------ MODULE Backtest ------------------------------
(***************************************************************************)
(* BacktestingService.run, bar by bar, with the three registered strategies *)
(* and the costs of ExecutionService.                                       *)
(*                                                                         *)
(* Prices are whole numbers, money is counted in hundredths of them, and a   *)
(* quantity is the whole part of ten times the confidence.                  *)
(***************************************************************************)
EXTENDS MarketAnalysis, TLC

CONSTANTS Bars,         \* the bars a tape is made of
          MaxBars,
          Capital,      \* initial_capital
          Slippage,     \* slippage and latency, in hundredths of the price
          FeeShare,     \* fee, in hundredths of the notional
          MinFee

VARIABLES strategy,  \* the strategy that is tested
          tape,      \* the candles so far
          books      \* the simulated account

vars == <<strategy, tape, books>>

NoOrder == [side |-> "none", qty |-> 0]
Order(side, qty) == [side |-> side, qty |-> qty]

-----------------------------------------------------------------------------
(* Indicators of the bar i: averages of what there is, up to their windows.  *)

First(i, w) == Max({1, i - w + 1})
Average(t, i, w) == MeanClose(t, First(i, w), i)

\* The ranges are of the bars in the window of Slow, counted from its start,
\* and the closes they are compared with of those in the window of Fast.
RangeAt(t, i, j) ==
  LET bar == t[First(i, Slow) + j]
      previous == t[First(i, Fast) + j - 1].close
  IN IF j = 0 THEN bar.high - bar.low
     ELSE Max({bar.high - bar.low, Distance(bar.high, previous), Distance(bar.low, previous)})
AverageRange(t, i) ==
  LET closes == i - First(i, Fast) + 1
  IN IF i = 1 \/ closes < Swing THEN Whole(0)
     ELSE Fraction(SumOver(LAMBDA j : RangeAt(t, i, j), 0, closes - 2), closes - 1)

\* Two deviations from the mean, both sides multiplied by the number of bars:
\* the square of the distance is compared with four times the variance.
Spread(t, i) ==
  LET a == First(i, Fast)
      n == i - a + 1
      sum == SumOver(LAMBDA j : t[j].close, a, i)
      squares == SumOver(LAMBDA j : t[j].close * t[j].close, a, i)
  IN [away |-> n * t[i].close - sum, band |-> 4 * (n * squares - sum * sum), mean |-> sum]

-----------------------------------------------------------------------------
(* The strategies; a ratio and a multiplier make a confidence of at most 1.  *)

Threshold == Fraction(2, 100)
Size(ratio, multiplier) == Min({10, (10 * multiplier * ratio.n) \div ratio.d})

TrendSignal(t, i) ==
  LET fast == Average(t, i, Fast)
      slow == Average(t, i, Slow)
      gap == Fraction(Distance(fast.n * slow.d, slow.n * fast.d), fast.d * slow.n)
  IN IF i = 1 \/ ~Less(Threshold, gap) THEN NoOrder
     ELSE Order(IF Less(slow, fast) THEN "buy" ELSE "sell", Size(gap, 10))

BreakoutSignal(t, i) ==
  LET range == AverageRange(t, i)
      ratio == Fraction(range.n, range.d * t[i].close)
  IN IF ~Less(Threshold, ratio) THEN NoOrder
     ELSE Order(IF i > 1 /\ Less(Whole(t[i].close), Average(t, i, Fast)) THEN "buy" ELSE "sell",
                Size(ratio, 5))

\* The distance beyond the band is irrational; the size is left at one.
ReversionSignal(t, i) ==
  LET s == Spread(t, i)
  IN IF i = 1 \/ s.away * s.away <= s.band \/ s.mean * s.mean = s.band THEN NoOrder
     ELSE Order(IF s.away > 0 THEN "sell" ELSE "buy", 1)

Evaluate(s, t, i) ==
  CASE s = "moving_average_trend" -> TrendSignal(t, i)
    [] s = "volatility_breakout" -> BreakoutSignal(t, i)
    [] s = "mean_reversion" -> ReversionSignal(t, i)
Strategies == {"moving_average_trend", "volatility_breakout", "mean_reversion"}

-----------------------------------------------------------------------------
(* ExecutionService: a buy pays up, a sell receives down.                    *)

FillPrice(price, side) == price * (IF side = "buy" THEN 100 + Slippage ELSE 100 - Slippage)
Fee(notional) ==
  IF FeeShare <= 0 THEN Max({MinFee, 0}) ELSE Max({(notional * FeeShare) \div 100, MinFee})

\* process_market_order for the order of the bar before, at this bar's open.
Filled(b, bar) ==
  LET price == FillPrice(bar.open, b.pending.side)
      signed == IF b.pending.side = "buy" THEN b.pending.qty ELSE -b.pending.qty
  IN IF b.pending = NoOrder THEN [b EXCEPT !.filledHere = FALSE]
     ELSE [b EXCEPT !.cash = @ - signed * price - Fee(b.pending.qty * price),
                    !.held = @ + signed,
                    !.fills = @ + 1, !.filledHere = TRUE]

Equity(cash, held, bar) == cash + held * 100 * bar.close

\* Mutant: the order is filled in the bar of its signal, at the close.
StepSameBar(s, t, b) ==
  LET bar == t[Len(t)]
      order == Evaluate(s, t, Len(t))
      after == Filled([b EXCEPT !.pending = order], [bar EXCEPT !.open = bar.close])
  IN [after EXCEPT !.pending = NoOrder,
                   !.signals = @ + IF order = NoOrder THEN 0 ELSE 1,
                   !.equity = Equity(after.cash, after.held, bar)]

\* One turn of the loop: fill, look at the bars so far, decide, value.
Step(s, t, b) ==
  LET i == Len(t)
      after == Filled(b, t[i])
      order == Evaluate(s, t, i)
  IN [after EXCEPT !.pending = order,
                   !.signals = @ + IF order = NoOrder THEN 0 ELSE 1,
                   !.equity = Equity(after.cash, after.held, t[i])]

Opened == [cash |-> 100 * Capital, held |-> 0, pending |-> NoOrder,
           signals |-> 0, fills |-> 0, filledHere |-> FALSE, equity |-> 100 * Capital]

Init == strategy \in Strategies /\ tape = <<>> /\ books = Opened

NextBar ==
  /\ Len(tape) < MaxBars
  /\ \E bar \in Bars : tape' = Append(tape, bar)
  /\ books' = Step(strategy, tape', books)
  /\ UNCHANGED strategy

Spec == Init /\ [][NextBar]_vars

\* Every strategy, bar by bar, in one run of _run_backtest_cycle.
Report == [signals |-> books.signals, trades |-> books.fills]

-----------------------------------------------------------------------------
\* No look-ahead: whatever the bar that comes does after its open, the account
\* has traded the same by then; and a trade is of the bar before, each signal
\* being filled once, save one on the last bar (backtesting_service.py:123).
NoLookAhead ==
  [][tape' # tape =>
     /\ \A bar \in Bars : bar.open = tape'[Len(tape')].open =>
          LET other == Step(strategy, Append(tape, bar), books)
          IN other.cash = books'.cash /\ other.held = books'.held
     /\ Report'.signals = Report'.trades + (IF books'.pending = NoOrder THEN 0 ELSE 1)]_vars

=============================================================================
