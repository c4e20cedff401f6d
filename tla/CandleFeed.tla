---------------------------- MODULE CandleFeed ----------------------------
(***************************************************************************)
(* The live market feed: the exchange, its trade stream, the thread that    *)
(* reads it (StreamingMarketDataService.run), the CandleAggregator behind   *)
(* it, and the cache of candles that StreamingMarketDataCollector serves    *)
(* and, after an outage, corrects from the exchange's own candles.          *)
(*                                                                         *)
(* Time is counted in units, Phases of them to a minute; the exchange       *)
(* trades each symbol at most once a unit.  A trade is its time, a candle   *)
(* the set of the trades in it: two candles of a minute agree when these    *)
(* sets do, so the tolerance of 5 basis points is left out.                 *)
(***************************************************************************)
EXTENDS Integers, Sequences, FiniteSets, TLC, SequencesExt, FiniteSetsExt

CONSTANTS Symbols,         \* symbols the exchange trades
          Phases,          \* units of time in a minute
          MaxTime,         \* the last unit of a behaviour
          MaxFaults,       \* how often something may go wrong in it
          ReconnectLimit,  \* attempts before the stream gives up
          MaxStaleness,    \* age, in units, of the oldest trade accepted
          Window,          \* candles kept for each symbol
          LimitCap         \* candles fetched by one pass of reconciliation

VARIABLES
  subscribed,  \* the symbols of the stream
  now,
  traded,      \* the exchange's trades of each symbol
  lost,        \* those the collector will never see, or has refused
  wire,        \* frames sent and not yet read
  conn,        \* "up" or "down"
  pc,          \* where the stream's thread is
  running,     \* StreamingMarketDataService._running
  attempts,    \* failed attempts since the last good frame
  delivered,   \* this connection has delivered a frame
  tick,        \* the frame in the thread's hands
  pass,        \* the pass of reconciliation under way
  current,     \* CandleAggregator._current: the open bucket of each symbol
  closed,      \* CandleAggregator._closed_starts
  candles,     \* the collector's _snapshot
  mopupUntil, lastMopup,
  faults,      \* things that went wrong so far
  smooth       \* nothing went wrong since the last resync

stream == <<conn, pc, running, attempts, delivered, tick, pass>>
cache == <<current, closed, candles, mopupUntil, lastMopup>>
exchange == <<subscribed, now, traded>>
vars == <<exchange, lost, wire, stream, cache, faults, smooth>>

Minute(t) == t \div Phases
Truth(s, m) == {t \in traded[s] : Minute(t) = m}
Start(ticks) == Minute(CHOOSE t \in ticks : TRUE)
Candle(m, ticks) == [start |-> m, trades |-> ticks]

NoPass == [at |-> 0, todo |-> {}, back |-> "none"]

\* The service, the aggregator and the collector before anything is started.
NewStream ==
  /\ conn = "down" /\ pc = "off" /\ running = FALSE
  /\ attempts = 0 /\ delivered = FALSE /\ tick = <<>>
NewAggregator == current = [s \in Symbols |-> {}] /\ closed = [s \in Symbols |-> {}]
NewCollector ==
  /\ candles = [s \in Symbols |-> <<>>]
  /\ pass = NoPass /\ mopupUntil = 0 /\ lastMopup = 0 - Phases

Init ==
  /\ subscribed \in SUBSET Symbols \ {{}}
  /\ now = 0 /\ traded = [s \in Symbols |-> {}]
  /\ lost = {} /\ wire = <<>>
  /\ NewStream /\ NewAggregator /\ NewCollector
  /\ faults = 0 /\ smooth = FALSE

\* Something goes wrong; it must be within the bound.
Fault == faults < MaxFaults /\ faults' = faults + 1 /\ smooth' = FALSE
NoFault == UNCHANGED <<faults, smooth>>

-----------------------------------------------------------------------------
(* The exchange and the network. *)

Frame(s) == [symbol |-> s, time |-> now + 1, good |-> TRUE]
Prompt == wire = <<>> /\ pc \in {"off", "connecting", "reading", "sleeping", "ended"}

\* A unit of time passes, and every symbol in "order" is traded once.
Pass(order) ==
  /\ now < MaxTime
  /\ now' = now + 1
  /\ traded' = [s \in Symbols |-> traded[s] \cup IF s \in Range(order) THEN {now + 1} ELSE {}]
  /\ IF conn = "up"
     THEN wire' = wire \o [i \in DOMAIN order |-> Frame(order[i])] /\ UNCHANGED lost
     ELSE lost' = lost \cup {<<s, now + 1>> : s \in Range(order)} /\ UNCHANGED wire
  /\ UNCHANGED subscribed
  /\ IF Prompt /\ Range(order) = subscribed THEN NoFault ELSE Fault
  /\ UNCHANGED <<stream, cache>>

TimePasses == \E S \in SUBSET subscribed : \E order \in SetToSeqs(S) : Pass(order)

Lose(frames) == lost' = lost \cup {<<f.symbol, f.time>> : f \in frames}

Disconnect ==
  /\ conn = "up"
  /\ conn' = "down"
  /\ Lose(Range(wire)) /\ wire' = <<>>
  /\ Fault
  /\ UNCHANGED <<exchange, pc, running, attempts, delivered, tick, pass, cache>>

\* A frame is damaged, or overtaken by the next one.
Garble ==
  /\ wire # <<>> /\ Head(wire).good
  /\ wire' = [wire EXCEPT ![1].good = FALSE]
  /\ Fault
  /\ UNCHANGED <<exchange, lost, stream, cache>>
Reorder ==
  /\ Len(wire) > 1
  /\ wire' = <<wire[2], wire[1]>> \o SubSeq(wire, 3, Len(wire))
  /\ Fault
  /\ UNCHANGED <<exchange, lost, stream, cache>>

-----------------------------------------------------------------------------
(* The stream's thread. *)

\* StreamingFeedRunner.start; starting again after an end is a fault.
StartFeed ==
  /\ pc \in {"off", "ended"}
  /\ pc' = "starting"
  /\ IF pc = "off" THEN NoFault ELSE Fault
  /\ UNCHANGED <<exchange, lost, wire, conn, running, attempts, delivered, tick, pass, cache>>

\* StreamingFeedRunner.stop: the flag is cleared and the transport closed.
StopFeed ==
  /\ running \/ pc = "starting"
  /\ running' = FALSE /\ conn' = "down"
  /\ Lose(Range(wire)) /\ wire' = <<>>
  /\ Fault
  /\ UNCHANGED <<exchange, pc, attempts, delivered, tick, pass, cache>>

Enter ==
  /\ pc = "starting"
  /\ pc' = "connecting" /\ running' = TRUE /\ attempts' = 0
  /\ UNCHANGED <<exchange, lost, wire, conn, delivered, tick, pass, cache, faults, smooth>>

\* An outage: too many in a row end the stream.
Outage ==
  /\ attempts' = attempts + 1
  /\ IF attempts + 1 > ReconnectLimit
     THEN pc' = "ended" /\ running' = FALSE
     ELSE pc' = "sleeping" /\ UNCHANGED running

Connect ==
  /\ pc = "connecting"
  /\ \/ conn' = "up" /\ pc' = "reading" /\ delivered' = FALSE /\ UNCHANGED <<running, attempts>>
     \/ Outage /\ UNCHANGED <<conn, delivered>>
  /\ UNCHANGED <<exchange, lost, wire, tick, pass, cache, faults, smooth>>

Loop == pc' = IF running THEN "connecting" ELSE "ended"

Wake ==
  /\ pc = "sleeping"
  /\ Loop
  /\ UNCHANGED <<exchange, lost, wire, conn, running, attempts, delivered, tick, pass, cache,
                 faults, smooth>>

\* The transport's iteration ends.  Without a frame that is an outage, and
\* otherwise the stream connects again as if nothing had been missed.
Exhausted == IF delivered THEN attempts' = 0 /\ Loop /\ UNCHANGED running ELSE Outage

\* recv() raises, or returns None.
ConnectionEnds ==
  /\ pc = "reading" /\ conn = "down"
  /\ Outage \/ Exhausted
  /\ UNCHANGED <<exchange, lost, wire, conn, delivered, tick, pass, cache, faults, smooth>>

Valid(frame) == frame.good /\ now - frame.time <= MaxStaleness

Skip ==
  /\ pc = "reading" /\ wire # <<>>
  /\ running /\ ~Valid(Head(wire))
  /\ Lose({Head(wire)}) /\ wire' = Tail(wire)
  /\ UNCHANGED <<exchange, stream, cache, faults, smooth>>

\* A frame that finds the flag cleared ends the iteration.
Break ==
  /\ pc = "reading" /\ wire # <<>> /\ ~running
  /\ Lose({Head(wire)}) /\ wire' = Tail(wire)
  /\ Exhausted
  /\ UNCHANGED <<exchange, conn, delivered, tick, pass, cache, faults, smooth>>

\* A pass begins with the symbols that are cached, at this moment's time.
BeginPass(served, back) ==
  /\ pc' = "reconciling"
  /\ pass' = [at |-> now, todo |-> {s \in Symbols : served[s] # <<>>}, back |-> back]

\* ingest(); the first good frame after an outage fires handle_reconnect
\* before the frame is drained.
Ingest ==
  /\ pc = "reading" /\ wire # <<>>
  /\ running /\ Valid(Head(wire))
  /\ tick' = Head(wire) /\ wire' = Tail(wire)
  /\ IF attempts > 0
     THEN /\ BeginPass(candles, "handling")
          /\ mopupUntil' = now + 2 * Phases
          /\ smooth' = (now % Phases # 0)
     ELSE pc' = "handling" /\ UNCHANGED <<pass, mopupUntil, smooth>>
  /\ UNCHANGED <<exchange, lost, conn, running, attempts, delivered, current, closed, candles,
                 lastMopup, faults>>

-----------------------------------------------------------------------------
(* CandleAggregator.add and the collector's _on_tick. *)

IsLate(s, m) == m \in closed[s] \/ (current[s] # {} /\ m < Start(current[s]))
IsNext(s, m) == current[s] # {} /\ m # Start(current[s])

\* The live window is bounded.
Keep(seq) == IF Len(seq) > Window THEN SubSeq(seq, Len(seq) - Window + 1, Len(seq)) ELSE seq

\* Mutant: the passes are two minutes apart, as long as the mop-up window.
MopupDueOnce == now < mopupUntil /\ now - lastMopup > 2 * Phases
MopupDue == now < mopupUntil /\ now - lastMopup >= Phases

LateTick(s) ==
  /\ IsLate(s, Minute(tick.time))
  /\ Lose({tick})
  /\ pc' = "reading"
  /\ UNCHANGED <<pass, current, closed, candles, lastMopup>>

SameBucket(s) ==
  /\ ~IsLate(s, Minute(tick.time)) /\ ~IsNext(s, Minute(tick.time))
  /\ current' = [current EXCEPT ![s] = @ \cup {tick.time}]
  /\ pc' = "reading"
  /\ UNCHANGED <<lost, pass, closed, candles, lastMopup>>

CloseBucket(s) ==
  LET served == [candles EXCEPT ![s] = Keep(Append(@, Candle(Start(current[s]), current[s])))]
  IN /\ ~IsLate(s, Minute(tick.time)) /\ IsNext(s, Minute(tick.time))
     /\ closed' = [closed EXCEPT ![s] = @ \cup {Start(current[s])}]
     /\ current' = [current EXCEPT ![s] = {tick.time}]
     /\ candles' = served
     /\ IF MopupDue
        THEN lastMopup' = now /\ BeginPass(served, "reading")
        ELSE pc' = "reading" /\ UNCHANGED <<lastMopup, pass>>
     /\ UNCHANGED lost

OnTick ==
  /\ pc = "handling"
  /\ LateTick(tick.symbol) \/ SameBucket(tick.symbol) \/ CloseBucket(tick.symbol)
  /\ tick' = <<>> /\ delivered' = TRUE
  /\ UNCHANGED <<exchange, wire, conn, running, attempts, mopupUntil, faults, smooth>>

-----------------------------------------------------------------------------
(* reconcile_resync: one symbol after the other, against the exchange's      *)
(* candles that were complete when the pass began.                           *)

Starts(seq) == {seq[i].start : i \in DOMAIN seq}
Needed(seq) == Min({LimitCap, (pass.at - Phases * seq[1].start) \div Phases + 2})
\* Mutant: the minute that is still forming counts as complete.
OfficialWithForming(s) ==
  {m \in candles[s][1].start .. Minute(now) : m > Minute(now) - Needed(candles[s])}
Official(s) ==
  {m \in candles[s][1].start .. Minute(now) :
     /\ m > Minute(now) - Needed(candles[s])
     /\ pass.at - Phases * m >= Phases}
Cached(seq, m) == seq[Max({i \in DOMAIN seq : seq[i].start = m})]

InOrder(minutes) ==
  [i \in 1 .. Cardinality(minutes) |->
     CHOOSE m \in minutes : Cardinality({k \in minutes : k < m}) = i - 1]

\* What differs from the exchange is replaced and what is missing filled.
Merged(s, official) ==
  LET seq == candles[s]
      minutes == InOrder(Starts(seq) \cup official)
      changed == \E m \in official : m \notin Starts(seq) \/ Cached(seq, m).trades # Truth(s, m)
  IN IF changed \/ Len(minutes) # Len(seq)
     THEN [i \in DOMAIN minutes |->
             IF minutes[i] \in official THEN Candle(minutes[i], Truth(s, minutes[i]))
                                        ELSE Cached(seq, minutes[i])]
     ELSE seq

Reconcile(s) ==
  /\ pc = "reconciling" /\ s \in pass.todo
  /\ pass' = [pass EXCEPT !.todo = @ \ {s}]
  /\ \/ /\ candles' = IF Official(s) = {} THEN candles
                       ELSE [candles EXCEPT ![s] = Merged(s, Official(s))]
        /\ NoFault
     \/ UNCHANGED candles /\ Fault       \* the exchange does not answer
  /\ UNCHANGED <<exchange, lost, wire, conn, pc, running, attempts, delivered, tick,
                 current, closed, mopupUntil, lastMopup>>

\* After the resync hook the stream counts as recovered.
Reconciled ==
  /\ pc = "reconciling" /\ pass.todo = {}
  /\ pc' = pass.back /\ pass' = NoPass
  /\ attempts' = IF pass.back = "handling" THEN 0 ELSE attempts
  /\ UNCHANGED <<exchange, lost, wire, conn, running, delivered, tick, cache, faults, smooth>>

-----------------------------------------------------------------------------
Next ==
  \/ TimePasses \/ Disconnect \/ Garble \/ Reorder
  \/ StartFeed \/ StopFeed \/ Enter \/ Connect \/ Wake \/ ConnectionEnds
  \/ Skip \/ Break \/ Ingest \/ OnTick
  \/ (\E s \in Symbols : Reconcile(s)) \/ Reconciled

Spec == Init /\ [][Next]_vars

Symmetry == Permutations(Symbols)

-----------------------------------------------------------------------------
Accepted(s) ==
  {t \in traded[s] : /\ <<s, t>> \notin lost
                     /\ \A f \in Range(wire) : <<f.symbol, f.time>> # <<s, t>>
                     /\ tick = <<>> \/ <<tick.symbol, tick.time>> # <<s, t>>}

\* Whatever the stream went through, a candle that is served holds trades of
\* its minute only, and every trade that was accepted is in the open bucket or
\* in each candle served for its minute (market_stream.py:296, the late tick;
\* streaming_collector.py:320, the merge): neither a late tick nor a pass of
\* reconciliation takes away what had arrived.
ServedIsWhatCame ==
  \A s \in Symbols : candles[s] # <<>> =>
    /\ \A i \in DOMAIN candles[s] :
         LET c == candles[s][i]
         IN c.trades \subseteq Truth(s, c.start)
            /\ Truth(s, c.start) \cap Accepted(s) \subseteq c.trades
    /\ \A t \in Accepted(s) \ current[s] :
         Minute(t) \in Starts(candles[s]) \/ Minute(t) < Min(Starts(candles[s]))

\* A resync heals: when nothing has gone wrong since the stream came back and
\* the mop-up window is over, every minute from the first to the last served is
\* there as the exchange has it, in order (streaming_collector.py:280, :171).
\* The bucket that was open during the outage, which closes incomplete behind
\* the candle fetched for its minute, does not stay.  A stream of one symbol
\* serves a minute once; with several, a mop-up that one symbol's candle starts
\* may fetch the minute another symbol is about to close.  A pass asks for
\* LimitCap candles, so the cache must not reach back further.  A resync in the
\* first moments of a minute is left out: the window is two minutes, and may be over
\* when the second candle closes, so that a bucket closed incomplete after the one
\* mop-up of another symbol stays in the cache.
ResyncHeals ==
  smooth /\ now >= mopupUntil /\ Prompt =>
    \A s \in subscribed : \A i \in DOMAIN candles[s] :
      candles[s][1].start > Minute(now) - LimitCap =>
      /\ candles[s][i].trades = Truth(s, candles[s][i].start)
      /\ i > 1 => LET step == candles[s][i].start - candles[s][i - 1].start
                  IN step = 1 \/ (step = 0 /\ Cardinality(subscribed) > 1)

=============================================================================
