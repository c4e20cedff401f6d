------------------------------ MODULE History ------------------------------
(***************************************************************************)
(* HistoricalDataService (domain/services/historical_data.py), which serves *)
(* `traderos backtest` candles of a provider from a table, or fetches them  *)
(* and keeps them there.                                                    *)
(*                                                                         *)
(* A candle is the time it opens at and the time up to which it has seen    *)
(* trades: it is whole when that is its end.                                *)
(***************************************************************************)
EXTENDS Integers, FiniteSets, FiniteSetsExt

CONSTANTS
  Limits,      \* numbers of candles that are asked for
  Hour, Four,  \* ticks from bar to bar: for "1h", and as a provider has it for "4h"
  Spaced,      \* _SPACING["4h"]
  Depth,       \* ticks of the provider's history before the first call
  MaxNow       \* bound on the clock

VARIABLES
  source, timeframe,
  time,
  cache,       \* the rows of historical_candles
  asked,       \* limit of the last call
  answer,      \* what it returned
  short        \* history: a call for fewer candles was fetched before

table == <<source, timeframe>>
vars == <<table, time, cache, asked, answer, short>>

Spacing == IF timeframe = "1h" THEN Hour ELSE Spaced

\* Binance has bars of four hours, Alpaca is asked for bars of six.
Length ==
  CASE timeframe = "1h"     -> Hour
    [] source = "binance"   -> Four
    [] source = "alpaca"    -> Spaced

\* The bars that have opened by now, the last one under way.
Opened(from) == {ts \in from .. time : ts % Length = 0}
Seen(ts) == [ts |-> ts, seen |-> Min({time, ts + Length})]
Newest(n, all) == {ts \in all : Cardinality({u \in all : ts < u}) < n}
Oldest(n, all) == {ts \in all : Cardinality({u \in all : u < ts}) < n}

Init ==
  /\ source \in {"binance", "alpaca"} /\ timeframe \in {"1h", "4h"}
  /\ time = 0 /\ cache = {} /\ asked = 0 /\ answer = {} /\ short = FALSE

Clock ==
  /\ time < MaxNow
  /\ time' = time + 1
  /\ answer' = {} /\ asked' = 0
  /\ UNCHANGED <<table, cache, short>>

Start(limit) == time - Spacing * limit
\* Binance is not told the window and gives the last bars; Alpaca the first
\* ones of it.
Provided(limit) ==
  {Seen(ts) : ts \in IF source = "binance" THEN Newest(limit, Opened(-Depth))
                     ELSE Oldest(limit, Opened(Max({-Depth, Start(limit)})))}

Expected(limit) == Min({limit, (time - Start(limit)) \div Spacing + 1})
Enough(limit) == Max({1, (Expected(limit) * 8) \div 10})
Loaded(limit) == {c \in cache : Start(limit) <= c.ts /\ c.ts <= time}
Upserted(bars) == bars \cup {c \in cache : \A b \in bars : b.ts # c.ts}

Answer(limit, bars) == asked' = limit /\ answer' = bars /\ UNCHANGED <<table, time>>

FromCache(limit) ==
  /\ Cardinality(Loaded(limit)) >= Enough(limit)
  /\ Answer(limit, Loaded(limit))
  /\ UNCHANGED <<cache, short>>

\* Too little in the table, or --no-cache.
Fetched(limit) ==
  /\ cache' = Upserted(Provided(limit))
  /\ short' = (short \/ \E n \in Limits : limit < n)
  /\ Answer(limit, Provided(limit))

\* Binance cannot be reached; Alpaca's error is the command's.
Unreachable(limit) ==
  /\ Answer(limit, {})
  /\ UNCHANGED <<cache, short>>

Next == Clock \/ \E limit \in Limits : FromCache(limit) \/ Fetched(limit) \/ Unreachable(limit)

Spec == Init /\ [][Next]_vars

-----------------------------------------------------------------------------
Missing == Opened(Max({-Depth, Start(asked)})) \ {c.ts : c \in answer}
UnderWay == {c \in answer : c.seen < c.ts + Length}

\* A backtest gets at least four of five candles of the time it asks for, and
\* all of them are whole but perhaps the last, or one that just leaves the
\* window, however often and late it asks: where the provider's bars are as
\* long as _SPACING says, and no call for fewer candles has filled the table
\* (domain/services/historical_data.py:24, :141).
BarsAreWholeAndRecent ==
  answer # {} /\ Length = Spacing =>
    /\ Cardinality(Missing) <= asked + 1 - Enough(asked)
    /\ ~short => \A c \in UnderWay : c.ts = Start(asked) \/ \A d \in answer : d.ts <= c.ts

=============================================================================
