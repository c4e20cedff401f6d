------------------------------- MODULE Replay -------------------------------
(***************************************************************************)
(* The causal trail of an order and what ReplayService makes of it.  A cycle *)
(* (or a retail request) writes rows to the audit log as it goes,            *)
(* signal.generated, decision.made, order.placed, trade.fill, and the trade  *)
(* to the trades table between them; PortfolioService writes audit rows of   *)
(* its own.  Replay reads both afterwards, for a window of time.             *)
(*                                                                         *)
(* Each row is written and committed by itself, and its index in the log is  *)
(* the time.  One market; a signal is the number of its appearance.         *)
(***************************************************************************)
EXTENDS Integers, Sequences, FiniteSets, SequencesExt, FiniteSetsExt

CONSTANTS Callers,     \* who submits: "cycle", "retail"
          Fills,       \* quantity and price of the fills there may be
          MaxSignals,  \* signals of a behaviour
          MaxRestarts,
          Limit        \* audit rows a replay reads: 5000

VARIABLES rows,    \* the audit log
          trades,  \* the trades table, in order of creation
          job,     \* what each caller is at
          signals, \* signals so far
          restarts,
          cut      \* signals that a crash or an exception cut short

vars == <<rows, trades, job, signals, restarts, cut>>

Idle == [at |-> "idle", signal |-> 0, trade |-> 0]

Init ==
  /\ rows = <<>> /\ trades = <<>>
  /\ job = [c \in Callers |-> Idle]
  /\ signals = 0 /\ restarts = 0 /\ cut = {}

Row(action, signal, trade, what) ==
  [action |-> action, signal |-> signal, trade |-> trade, what |-> what]
Write(row) == rows' = Append(rows, row)
\* PortfolioService's rows have no JSON in them and so no signal.
Noise(action) == Row(action, 0, 0, "text")

Go(c, at) == job' = [job EXCEPT ![c].at = at]
Done(c) == job' = [job EXCEPT ![c] = Idle]

-----------------------------------------------------------------------------
(* CycleExecutor.run and submit_retail_order, from the signal on.            *)

\* A retail order begins with the decision.
Begin(c) ==
  /\ job[c] = Idle /\ signals < MaxSignals
  /\ signals' = signals + 1
  /\ job' = [job EXCEPT ![c] = [at |-> "decide", signal |-> signals + 1, trade |-> 0]]
  /\ IF c = "cycle" THEN Write(Row("signal.generated", signals + 1, 0, "none")) ELSE UNCHANGED rows
  /\ UNCHANGED <<trades, restarts, cut>>

\* A gap in the data, the preflight, the kill switch or the sizing ends it.
Drop(c) ==
  /\ c = "cycle" /\ job[c].at = "decide"
  /\ Done(c)
  /\ UNCHANGED <<rows, trades, signals, restarts, cut>>

Decide(c, outcome) ==
  /\ job[c].at = "decide"
  /\ Write(Row("decision.made", job[c].signal, 0, outcome))
  /\ IF outcome = "blocked" THEN Done(c) ELSE Go(c, "place")
  /\ UNCHANGED <<trades, signals, restarts, cut>>

Place(c, status) ==
  /\ job[c].at = "place"
  /\ Write(Row("order.placed", job[c].signal, 0, status))
  /\ IF status = "filled" THEN Go(c, "open") ELSE Done(c)
  /\ UNCHANGED <<trades, signals, restarts, cut>>

\* The broker raises, or the booking of the fill does.
Raise(c) ==
  /\ job[c].at \in {"place", "record"}
  /\ Done(c)
  /\ cut' = cut \cup {job[c].signal}
  /\ UNCHANGED <<rows, trades, signals, restarts>>

\* open_trade: the trade is created, at the time of its own audit row.
Open(c, side, qty, price) ==
  /\ job[c].at = "open"
  /\ trades' = Append(trades, [signal |-> job[c].signal, side |-> side, qty |-> qty,
                               price |-> price, created |-> Len(rows) + 1,
                               status |-> "pending"])
  /\ Write(Noise("trade.open"))
  /\ job' = [job EXCEPT ![c].at = "fill", ![c].trade = Len(trades) + 1]
  /\ UNCHANGED <<signals, restarts, cut>>

FillTrade(c) ==
  /\ job[c].at = "fill"
  /\ trades' = [trades EXCEPT ![job[c].trade].status = "filled"]
  /\ Write(Noise("trade.fill"))
  /\ Go(c, "record")
  /\ UNCHANGED <<signals, restarts, cut>>

RecordFill(c) ==
  /\ job[c].at = "record"
  /\ Write(Row("trade.fill", job[c].signal, job[c].trade, "none"))
  /\ Done(c)
  /\ UNCHANGED <<trades, signals, restarts, cut>>

Crash ==
  /\ restarts < MaxRestarts /\ restarts' = restarts + 1
  /\ cut' = cut \cup {job[c].signal : c \in {d \in Callers : job[d] # Idle}}
  /\ job' = [c \in Callers |-> Idle]
  /\ UNCHANGED <<rows, trades, signals>>

Submit(c) ==
  \/ Begin(c) \/ Drop(c) \/ Raise(c) \/ FillTrade(c) \/ RecordFill(c)
  \/ \E outcome \in {"allowed", "blocked"} : Decide(c, outcome)
  \/ \E status \in {"filled", "not_filled"} : Place(c, status)
  \/ \E side \in {"buy", "sell"}, f \in Fills : Open(c, side, f.qty, f.price)

Next == (\E c \in Callers : Submit(c)) \/ Crash
Spec == Init /\ [][Next]_vars

-----------------------------------------------------------------------------
(* _fifo_realized_pnl: a trade first takes from the oldest lots of the other  *)
(* side, and what is left of it becomes a lot.                                *)

Lot(qty, price) == [qty |-> qty, price |-> price]
NoLots == [long |-> <<>>, short |-> <<>>, realized |-> [t \in {} |-> 0]]

Least(x, y) == IF x < y THEN x ELSE y

\* "taken": what is still wanted, the lots that stay, and the gain so far.
TakeFrom(taken, lot, price, side) ==
  LET take == Least(lot.qty, taken.wanted)
      gain == IF side = "buy" THEN lot.price - price ELSE price - lot.price
  IN [wanted |-> taken.wanted - take,
      stay |-> IF take = lot.qty THEN taken.stay
               ELSE Append(taken.stay, Lot(lot.qty - take, lot.price)),
      gain |-> taken.gain + take * gain]

Match(lots, t) ==
  LET trade == trades[t]
      others == IF trade.side = "buy" THEN lots.short ELSE lots.long
      own == IF trade.side = "buy" THEN lots.long ELSE lots.short
      taken == FoldLeft(LAMBDA acc, lot : TakeFrom(acc, lot, trade.price, trade.side),
                        [wanted |-> trade.qty, stay |-> <<>>, gain |-> 0], others)
      kept == IF taken.wanted = 0 THEN own ELSE Append(own, Lot(taken.wanted, trade.price))
      pnl == IF others = <<>> THEN lots.realized
             ELSE [u \in DOMAIN lots.realized \cup {t} |->
                     IF u = t THEN taken.gain ELSE lots.realized[u]]
  IN IF trade.side = "buy" THEN [long |-> kept, short |-> taken.stay, realized |-> pnl]
                           ELSE [long |-> taken.stay, short |-> kept, realized |-> pnl]

FifoRealized(ts) == FoldLeft(Match, NoLots, SetToSortSeq(ts, <))

-----------------------------------------------------------------------------
(* replay_day *)

FilledIn(a, b) == {t \in DOMAIN trades : trades[t].status = "filled" /\ trades[t].created \in a .. b}

\* The newest rows, of whatever action, and of them those of the window.
Read(a, b) == {r \in DOMAIN rows : r > Len(rows) - Limit /\ r \in a .. b}
Entries(a, b) == {r \in Read(a, b) : rows[r].signal # 0}

Replayed(a, b) == {rows[r].signal : r \in Entries(a, b)}
Steps(s, action, a, b) == {r \in Entries(a, b) : rows[r].signal = s /\ rows[r].action = action}

Blocked(s, a, b) == \E r \in Steps(s, "decision.made", a, b) : rows[r].what = "blocked"
\* Mutant: an order the broker filled counts without its trade.
CompleteWithoutTrade(s, a, b) ==
  \E r \in Steps(s, "order.placed", a, b) : rows[r].what = "filled"

\* _build_chain: a fill counts when the order's row says it was filled.
Complete(s, a, b) ==
  /\ Steps(s, "trade.fill", a, b) # {}
  /\ \E r \in Steps(s, "order.placed", a, b) : rows[r].what = "filled"
FillsPnl(s, a, b) ==
  LET realized == FifoRealized(FilledIn(a, b)).realized
      known == {rows[r].trade : r \in Steps(s, "trade.fill", a, b)} \cap DOMAIN realized
  IN MapThenSumSet(LAMBDA t : realized[t], known)
TotalPnl(a, b) == MapThenSumSet(LAMBDA s : FillsPnl(s, a, b), Replayed(a, b))

-----------------------------------------------------------------------------
Quiet == \A c \in Callers : job[c] = Idle
RowsOf(s) == {r \in DOMAIN rows : rows[r].signal = s}
TradesOf(s) == {t \in DOMAIN trades : trades[t].signal = s}

\* Windows from the start, or to the end; what lies between two times is a
\* window to the end of an earlier state.
Windows == {<<1, b>> : b \in DOMAIN rows} \cup {<<a, Len(rows)>> : a \in DOMAIN rows}

Cash(ts) ==
  MapThenSumSet(LAMBDA t : (IF trades[t].side = "buy" THEN -1 ELSE 1)
                             * trades[t].qty * trades[t].price, ts)
Cost(lots) == MapThenSumSet(LAMBDA i : lots[i].qty * lots[i].price, DOMAIN lots)
Held(ts) ==
  MapThenSumSet(LAMBDA t : (IF trades[t].side = "buy" THEN 1 ELSE -1) * trades[t].qty, ts)

\* What is realized is what was earned: for the trades of any window it is the
\* cash they brought, with the lots still open counted at cost; a window that
\* opens when nothing is held says of each trade what the whole history does;
\* and when no row is lost the total is the sum over the trades
\* (replay_service.py:205).
RealizedIsConserved(a, b) ==
  LET ts == FilledIn(a, b)
      r == FifoRealized(ts)
      sum == MapThenSumSet(LAMBDA t : r.realized[t], DOMAIN r.realized)
      all == FifoRealized(FilledIn(1, b)).realized
  IN /\ sum = Cash(ts) + Cost(r.long) - Cost(r.short)
     /\ Held(FilledIn(1, a - 1)) = 0 => \A t \in DOMAIN r.realized : r.realized[t] = all[t]
     /\ a = 1 /\ cut = {} /\ b = Len(rows) /\ b <= Limit => TotalPnl(a, b) = sum

\* Of an order that was not cut short, whose rows are all read, the chain is
\* complete exactly when its trade is filled, and it is blocked exactly when it
\* got no further than the decision (replay_service.py:121).  The rows of an
\* order that was cut short never say more than happened.
ChainIsTrue(s, a, b) ==
  /\ Complete(s, a, b) => \E t \in TradesOf(s) : trades[t].status = "filled"
  /\ RowsOf(s) \subseteq Read(a, b) /\ s \notin cut =>
       /\ Complete(s, a, b) <=> TradesOf(s) # {}
       /\ Blocked(s, a, b) => TradesOf(s) = {}
       /\ Complete(s, a, b) \/ Blocked(s, a, b)
            \/ \A r \in RowsOf(s) : rows[r].what # "filled"

ChainsAreTrue ==
  Quiet => \A w \in Windows : \A s \in Replayed(w[1], w[2]) : ChainIsTrue(s, w[1], w[2])

\* A replay of any window tells the truth: of every order it shows, and of the
\* profit (replay_service.py:114-160, :205-247).
ReplayTellsTheTruth ==
  /\ ChainsAreTrue
  /\ Quiet => \A w \in Windows : RealizedIsConserved(w[1], w[2])

=============================================================================
