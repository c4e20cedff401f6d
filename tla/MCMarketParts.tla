---------------------------- MODULE MCMarketParts ----------------------------
(***************************************************************************)
(* The parts of the market that are proved about as well as checked:        *)
(* PaperTrading and Backtest, which trade without a broker, CandleFeed and  *)
(* History, which serve candles, MarketBrain, which reads them, and Replay, *)
(* which reads what the orders left.  They share no state.                  *)
(***************************************************************************)
EXTENDS Integers, FiniteSets

CONSTANTS
  Capital, Slippage,
  Quantities, Prices, Trail, MaxOrders,                        \* of PaperTrading
  Fast, Slow, Swing, MomentumWindow, MinCandles,               \* of Backtest
  Bars, MaxBars, FeeShare, MinFee,
  Symbols, Phases, MaxTime, MaxFaults, ReconnectLimit,         \* of CandleFeed
  MaxStaleness, Window, LimitCap,
  Limits, Hour, Four, Spaced, Depth, MaxNow,                   \* of History
  BrainFast, BrainSlow, BrainSwing, BrainMomentum,             \* of MarketBrain
  BrainCandles, SourceHour, MaxMinute, HistoryBars, TickBuffer, BrainFailures, BrainCrashes,
  Submitters, Fills, MaxSignals, MaxRestarts, ReadLimit        \* of Replay

\* What is asked for has a quantity and a price.  slippage_bps is 5.
ASSUME PaperAssumption ==
  /\ Prices \subseteq Nat \ {0} /\ Quantities \subseteq Nat \ {0}
  /\ Slippage \in 0 .. 99 /\ Capital \in Int

\* A minute is not empty of time, and the window counts candles.
ASSUME FeedAssumption ==
  /\ Phases \in Nat \ {0} /\ Window \in Nat /\ IsFiniteSet(Symbols)

\* Candles are asked for, and bars have a length.
ASSUME HistoryAssumption ==
  /\ Limits \subseteq Nat \ {0} /\ Depth \in Nat
  /\ Hour \in Nat \ {0} /\ Four \in Nat \ {0} /\ Spaced \in Nat \ {0}

\* The source's bars have a length, and warming asks for a number of them.
ASSUME BrainAssumption == SourceHour \in Nat \ {0} /\ HistoryBars \in Nat

VARIABLES
  balance, position, resting, seq, book, earned, oversold,
  strategy, tape, books,
  subscribed, now, traded, lost, wire, conn, thread, running, attempts, delivered, tick, pass,
  current, closed, candles, mopupUntil, lastMopup, faults, smooth,
  source, timeframe, time, cache, asked, answer, short,
  mode, closes, view, ticks, warmed, store, unsaved, truncated, advice, failures, downs,
  audit, trades, job, signals, restarts, cut

Paper == INSTANCE PaperTrading
Tested == INSTANCE Backtest
Feed == INSTANCE CandleFeed WITH pc <- thread
Asked == INSTANCE History
Brain == INSTANCE MarketBrain
  WITH Fast <- BrainFast, Slow <- BrainSlow, Swing <- BrainSwing,
       MomentumWindow <- BrainMomentum, MinCandles <- BrainCandles, Hour <- SourceHour,
       MaxFailures <- BrainFailures, MaxCrashes <- BrainCrashes, crashes <- downs
Replayed == INSTANCE Replay WITH Callers <- Submitters, Limit <- ReadLimit, rows <- audit

PaperSpec == Paper!Spec
TestedSpec == Tested!Spec
FeedSpec == Feed!Spec
HistorySpec == Asked!Spec
BrainSpec == Brain!Spec
ReplaySpec == Replayed!Spec

\* The properties, stated in the modules.
PaperBooksAgree == Paper!PaperBooksAgree
NoLookAhead == Tested!NoLookAhead
ServedIsWhatCame == Feed!ServedIsWhatCame /\ Asked!BarsAreWholeAndRecent
RestartIsInvisible == Brain!RestartIsInvisible
ReplayTellsTheTruth == Replayed!ReplayTellsTheTruth
=============================================================================
