---------------------------- MODULE MarketBrain ----------------------------
(***************************************************************************)
(* The Market Brain of one market: the bars it holds in memory, its durable *)
(* copy of them (BrainCandleStore over the table historical_candles), how a  *)
(* daemon warms it once and then lets it gate every cycle.  The             *)
(* asynchronous daemon feeds it the ticks; the synchronous one does not.    *)
(*                                                                         *)
(* Time is counted in minutes, which is the brain's own interval.  The      *)
(* data source's bars span Hour minutes and the last of them is still       *)
(* forming; the brain files them under "1h" and its own under "1m".         *)
(***************************************************************************)
EXTENDS MarketAnalysis, Functions, SequencesExt

CONSTANTS Prices, Hour, MaxMinute,
          HistoryBars,   \* bars asked for when the brain is warmed: 300
          TickBuffer,    \* ticks remembered: 512
          MaxFailures, MaxCrashes

VARIABLES mode,       \* the daemon that runs: "async" or "sync"
          closes,     \* the market's price in each minute so far
          view,       \* the brain's bars, in order of time
          ticks,      \* the latest ticks
          warmed,     \* the daemon has warmed the brain
          store,      \* durable bars: from timeframe and time to price
          unsaved,    \* bars of the view whose save failed
          truncated,  \* a warming left bars in the store
          advice,     \* what the brain last said
          failures, crashes

vars == <<mode, closes, view, ticks, warmed, store, unsaved, truncated, advice, failures, crashes>>

now == Len(closes) - 1
PriceAt(minute) == closes[minute + 1]

\* Every bar here is flat: a tick's bar is made of one tick.
Bar(tf, ts, price) == [tf |-> tf, ts |-> ts, high |-> price, low |-> price, close |-> price]
Key(bar) == <<bar.tf, bar.ts>>
Keys(bars) == {Key(b) : b \in Range(bars)}

Init ==
  /\ mode \in {"async", "sync"}
  /\ closes \in [1 .. 1 -> Prices]
  /\ view = <<>> /\ ticks = <<>> /\ warmed = FALSE
  /\ store = << >> /\ unsaved = {} /\ truncated = FALSE
  /\ advice = "none" /\ failures = 0 /\ crashes = 0

-----------------------------------------------------------------------------
(* Bars in memory and in the table. *)

\* The members of a finite set, each behind those that come before it.
InOrder(S, before) ==
  [k \in 1 .. Cardinality(S) |->
     CHOOSE x \in S : Cardinality({y \in S : <<y, x>> \in before}) = k - 1]

\* _merge_candles: bars equal in every field are one bar; a stable sort by time.
Merge(bars, more) ==
  LET all == bars \o more
      merged == {i \in DOMAIN all : i <= Len(bars) \/ all[i] \notin Range(bars)}
      before == {p \in merged \X merged :
                   \/ all[p[1]].ts < all[p[2]].ts
                   \/ all[p[1]].ts = all[p[2]].ts /\ p[1] < p[2]}
      order == InOrder(merged, before)
  IN [k \in DOMAIN order |-> all[order[k]]]

LastOfKey(bars, k) == bars[Max({i \in DOMAIN bars : Key(bars[i]) = k})]

\* save_candles: one row for each timeframe and time, the last bar's.
Saved(bars, keys) ==
  [k \in DOMAIN store \cup keys |-> IF k \in keys THEN LastOfKey(bars, k).close ELSE store[k]]

\* load_candles: the oldest rows of either timeframe.
Oldest(keys) ==
  /\ Cardinality(keys) = Min({HistoryBars, Cardinality(DOMAIN store)})
  /\ \A k \in keys : \A other \in DOMAIN store \ keys : k[2] <= other[2]
Loaded(keys) ==
  LET before == {p \in keys \X keys :
                   \/ p[1][2] < p[2][2]
                   \/ p[1][2] = p[2][2] /\ p[1][1] = "1h" /\ p[2][1] = "1m"}
      rows == InOrder(keys, before)
  IN [i \in DOMAIN rows |-> Bar(rows[i][1], rows[i][2], store[rows[i]])]

\* What the data source answers: its latest bars.
SourceBars ==
  LET first == Max({0, now \div Hour - HistoryBars + 1})
      bar(h) == Bar("1h", h * Hour, PriceAt(Min({h * Hour + Hour - 1, now})))
  IN [i \in 1 .. now \div Hour - first + 1 |-> bar(first + i - 1)]

-----------------------------------------------------------------------------
(* Warming: the store first and the data source when it is empty. *)

Fails == failures < MaxFailures /\ failures' = failures + 1
Works == UNCHANGED failures

WarmFromStore ==
  /\ DOMAIN store # {}
  /\ \E keys \in SUBSET DOMAIN store : Oldest(keys) /\ view' = Merge(view, Loaded(keys))
  /\ truncated' = (truncated \/ Cardinality(DOMAIN store) > HistoryBars)
  /\ warmed' = TRUE
  /\ Works
  /\ UNCHANGED <<store, unsaved>>

\* seed_candles saves the whole view row by row; a failure leaves the rest.
Seed ==
  LET bars == Merge(view, SourceBars)
  IN /\ DOMAIN store = {}
     /\ view' = bars
     /\ \E keys \in SUBSET Keys(bars) :
          /\ store' = Saved(bars, keys)
          /\ unsaved' = Keys(bars) \ keys
          /\ warmed' = (keys = Keys(bars))
          /\ IF keys = Keys(bars) THEN Works ELSE Fails
     /\ UNCHANGED truncated

\* The source has no bars: the brain counts as warmed all the same.
NothingToSeed ==
  /\ DOMAIN store = {}
  /\ warmed' = TRUE
  /\ Fails
  /\ UNCHANGED <<view, store, unsaved, truncated>>

\* The table cannot be read, or the source raises.
WarmingRaises == Fails /\ UNCHANGED <<view, warmed, store, unsaved, truncated>>

Warm == ~warmed /\ (WarmFromStore \/ Seed \/ NothingToSeed \/ WarmingRaises)

-----------------------------------------------------------------------------
(* update_tick: a tick of a later minute than the last bar makes a new bar.  *)
(* A later tick of the minute changes nothing.                               *)

Recent(seq) == IF Len(seq) > TickBuffer THEN Tail(seq) ELSE seq

CandleFromTicks(all, minute) ==
  LET own == SelectSeq(all, LAMBDA t : t.at = minute)
      price(i) == own[i].price
  IN Bar("1m", minute, MapThenSumSet(price, DOMAIN own) \div Len(own))

IsNewer(minute) == view # <<>> /\ minute > view[Len(view)].ts

\* Mutant: the bar goes into the view and not into the table.
UpdateTickInMemory(minute) ==
  LET all == Recent(Append(ticks, [at |-> minute, price |-> PriceAt(minute)]))
  IN /\ ticks' = all
     /\ IF IsNewer(minute) THEN view' = Append(view, CandleFromTicks(all, minute)) ELSE UNCHANGED view
     /\ advice' = IF view' = <<>> THEN "unread" ELSE Advise(view')
     /\ Works /\ UNCHANGED <<store, unsaved>>
UpdateTick(minute) ==
  LET all == Recent(Append(ticks, [at |-> minute, price |-> PriceAt(minute)]))
      bar == CandleFromTicks(all, minute)
  IN /\ ticks' = all
     /\ IF IsNewer(minute)
        THEN /\ view' = Append(view, bar)
             /\ \/ store' = Saved(<<bar>>, {Key(bar)}) /\ Works /\ UNCHANGED unsaved
                   /\ advice' = Advise(view')
                \/ unsaved' = unsaved \cup {Key(bar)} /\ Fails /\ UNCHANGED <<store, advice>>
        ELSE /\ advice' = IF view = <<>> THEN "unread" ELSE Advise(view)
             /\ Works /\ UNCHANGED <<view, store, unsaved>>

-----------------------------------------------------------------------------
MinutePasses ==
  /\ now < MaxMinute
  /\ \E p \in Prices : closes' = Append(closes, p)
  /\ UNCHANGED <<mode, view, ticks, warmed, store, unsaved, truncated, advice, failures, crashes>>

\* The first tick, or the first cycle, of a process warms the brain.
WarmBrain ==
  /\ Warm
  /\ UNCHANGED <<mode, closes, ticks, advice, crashes>>

\* handle_tick, with a tick of this minute or a late one.
HandleTick ==
  /\ mode = "async" /\ warmed
  /\ \E minute \in {now, now - 1} \cap Nat : UpdateTick(minute)
  /\ UNCHANGED <<mode, closes, warmed, truncated, crashes>>

\* _brain_gate of the synchronous daemon.
Gate ==
  /\ mode = "sync" /\ warmed
  /\ advice' = IF view = <<>> THEN "unread" ELSE Advise(view)
  /\ UNCHANGED <<mode, closes, view, ticks, warmed, store, unsaved, truncated, failures, crashes>>

Crash ==
  /\ crashes < MaxCrashes /\ crashes' = crashes + 1
  /\ view' = <<>> /\ ticks' = <<>> /\ warmed' = FALSE
  /\ unsaved' = {} /\ truncated' = FALSE /\ advice' = "none"
  /\ mode' \in {"async", "sync"}
  /\ UNCHANGED <<closes, store, failures>>

Next == MinutePasses \/ WarmBrain \/ HandleTick \/ Gate \/ Crash
Spec == Init /\ [][Next]_vars

-----------------------------------------------------------------------------
\* A restart is invisible: a warmed brain holds the bars that are stored, and
\* at their last price, save those whose write failed and unless the store has
\* outgrown one warming (market_brain_service.py:156, :188).  What the next
\* process will read is what this one acts on.
RestartIsInvisible ==
  warmed /\ ~truncated =>
    /\ Keys(view) = DOMAIN store \cup unsaved
    /\ \A k \in DOMAIN store \ unsaved : LastOfKey(view, k).close = store[k]

=============================================================================
