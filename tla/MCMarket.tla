------------------------------ MODULE MCMarket ------------------------------
(***************************************************************************)
(* CandleFeed, History, MarketBrain, Backtest, Replay and PaperTrading for  *)
(* TLC.  They share no state: a behaviour is of one of them, its face, and  *)
(* the others keep still.                                                   *)
(***************************************************************************)
EXTENDS MCMarketParts, Sequences, TLC

VARIABLE face

feed == <<subscribed, now, traded, lost, wire, conn, thread, running, attempts, delivered, tick,
          pass, current, closed, candles, mopupUntil, lastMopup, faults, smooth>>
brain == <<mode, closes, view, ticks, warmed, store, unsaved, truncated, advice, failures, downs>>
tested == <<strategy, tape, books>>
replayed == <<audit, trades, job, signals, restarts, cut>>
paper == <<balance, position, resting, seq, book, earned, oversold>>
fetched == <<source, timeframe, time, cache, asked, answer, short>>

Symmetry == Permutations(Symbols)

BarShapes == {[open |-> 4, high |-> 5, low |-> 3, close |-> 4],
              [open |-> 4, high |-> 9, low |-> 4, close |-> 8],
              [open |-> 8, high |-> 8, low |-> 1, close |-> 2]}

FillShapes == {[qty |-> 1, price |-> 1], [qty |-> 2, price |-> 3]}

\* Two orders overlap, perhaps with a restart, or three take turns.
Faces == {"feed", "brain", "tested", "overlap", "turns", "paper", "fetched"}

MCInit ==
  /\ face \in Faces
  /\ Feed!Init /\ Brain!Init /\ Tested!Init /\ Replayed!Init /\ Paper!Init /\ Asked!Init
  /\ face # "feed" => subscribed = Symbols
  /\ face # "brain" => mode = "async" /\ closes = <<4>>
  /\ face # "tested" => strategy = "mean_reversion"
  /\ face # "fetched" => source = "binance" /\ timeframe = "1h"

MCNext ==
  /\ UNCHANGED face
  /\ \/ face = "feed" /\ Feed!Next
     \/ face = "brain" /\ Brain!Next
     \/ face = "tested" /\ Tested!NextBar
     \/ face = "paper" /\ Paper!Next
     \/ face = "fetched" /\ Asked!Next
     \/ /\ face \in {"overlap", "turns"} /\ Replayed!Next
        /\ signals' # signals => IF face = "overlap" THEN signals < 2 ELSE Replayed!Quiet
        /\ face = "turns" => restarts' = restarts
  /\ (face # "feed" => UNCHANGED feed) /\ (face # "brain" => UNCHANGED brain) /\ (face # "tested" => UNCHANGED tested)
  /\ (face # "paper" => UNCHANGED paper) /\ (face # "fetched" => UNCHANGED fetched)
  /\ face \notin {"overlap", "turns"} => UNCHANGED replayed

MCSpec == MCInit /\ [][MCNext]_<<face, feed, brain, tested, replayed, paper, fetched>>

\* The other properties, each stated in the module of its face.
ResyncHeals == Feed!ResyncHeals

=============================================================================
