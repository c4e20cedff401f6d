--------------------------- MODULE AsyncTradingProofs ---------------------------
(***************************************************************************)
(* Proofs about AsyncTrading for every number of markets, ticks and worker  *)
(* threads.                                                                 *)
(*                                                                          *)
(* Why a flatten leaves nothing behind: it begins only behind a tripped     *)
(* switch, which nothing resets, so no cycle passes the gate any more; what *)
(* the broker fills from then on was already past it (Surrounded).  What    *)
(* the flatten does not find in the position table is on its way there, or  *)
(* slipped (BoughtIsBooked).                                                *)
(***************************************************************************)
EXTENDS AsyncTrading, TLAPS

(* A lot at the broker is in a row of the position table, its cycle is      *)
(* about to book it, or it slipped.                                         *)
Kept(b) == b \in slipped \/ \E at \in Lots : b \in rows[at]
BoughtIsBooked == \A b \in bought : Kept(b) \/ (b \in Ids /\ cycle[b] \in {"book", "write"})

Flattening(t) == cycle[t] = "flatten"

(* From the start of a flatten on the switch is tripped, and every cycle    *)
(* past the gate is among those that were when it began.                    *)
Surrounded ==
  latched \/ (\E t \in Ids : Flattening(t)) =>
    tripped /\ \A u \in Ids : cycle[u] \in {"send", "book", "write"} => u \in inFlight

(* What the broker holds is closed, reported, in flight or slipped, but for *)
(* what the flatten under way has still to close.                           *)
Dealt(b) == b \in reported \cup inFlight \cup slipped \/ \E t \in Ids : b \in closed[t]
LeftInv ==
  /\ \A t \in Ids : Flattening(t) => \A b \in bought : Dealt(b) \/ \E row \in toClose[t] : b \in row
  /\ latched => \A b \in bought : Dealt(b)

(* Without an overlap and without a page that was not delivered there is    *)
(* one flatten, and the latch says when it is over.                         *)
OneFlatten ==
  overlapped \/ unheard \/
    /\ \A t, u \in Ids : Flattening(t) /\ Flattening(u) => t = u
    /\ latched => \A t \in Ids : ~Flattening(t)
    /\ ~latched => \A t \in Ids : ~Flattening(t) => closed[t] = {}
    /\ \A t, u \in Ids : t # u => closed[t] = {} \/ closed[u] = {}

(* After the end nothing can begin, and what runs on was given up.          *)
EndInv ==
  pipe = "over" =>
    /\ tasks = <<>>
    /\ \A t \in Ids : cycle[t] # "queued" /\ (InThread(t) => t \in gaveUp)

Inv == TypeOK /\ BoughtIsBooked /\ Surrounded /\ LeftInv /\ OneFlatten /\ EndInv

LEMMA InitInv == Init => Inv
<1> SUFFICES ASSUME Init PROVE Inv
  OBVIOUS
<1> USE DEF Init, NewIngestor, NewDaemon
<1>1. ticks \in Seq([symbol : Symbols, at : Nat]) /\ Len(ticks) = 0 /\ Len(ticks) <= MaxTicks
  BY AsyncAssumption
<1>3. queue \in Seq(1..Len(ticks)) /\ tasks \in Seq(1..Len(ticks))
  OBVIOUS
<1>4. lastSeen \in [Markets -> Nat] /\ cycle \in [Ids -> CycleSteps]
  BY DEF CycleSteps
<1>5. toClose \in [Ids -> SUBSET (SUBSET Lots)] /\ closed \in [Ids -> SUBSET Lots]
  OBVIOUS
<1>7. /\ bought \subseteq Lots /\ rows \in [Lots -> SUBSET Lots]
      /\ \A b \in bought : b \in rows[b]
  BY DEF Lots
<1>8. read \in [Ids -> [row : Lots, lots : SUBSET Lots]]
  BY DEF NoRow, Lots
<1>6. TypeOK
  BY <1>1, <1>3, <1>4, <1>5, <1>7, <1>8 DEF TypeOK
<1>9. BoughtIsBooked
  BY <1>7 DEF BoughtIsBooked, Kept
<1>2. Surrounded /\ LeftInv /\ OneFlatten /\ EndInv
  BY DEF Surrounded, LeftInv, OneFlatten, EndInv, Flattening, InThread, Threaded
<1> QED BY <1>6, <1>9, <1>2 DEF Inv

-----------------------------------------------------------------------------
(* Types.                                                                   *)

FeedStep ==
  \/ RunForever \/ IngestStarts \/ Connect \/ SocketEnds \/ BackoffEnds \/ Stop \/ Cancel
  \/ \E s \in Symbols : Receive(s)
  \/ LeaveLoop \/ BeginDrain \/ Drained

LEMMA FeedKeepsTrades ==
  ASSUME FeedStep
  PROVE  UNCHANGED tradeVars
BY DEF FeedStep, RunForever, IngestStarts, Connect, SocketEnds, BackoffEnds, Stop, Cancel,
   Receive, LeaveLoop, BeginDrain, Drained

LEMMA LargerSeq ==
  ASSUME NEW S, NEW T, S \subseteq T, NEW s \in Seq(S)
  PROVE  s \in Seq(T)
OBVIOUS

LEMMA ElementOfSeq ==
  ASSUME NEW S, NEW s \in Seq(S), NEW i \in 1..Len(s)
  PROVE  s[i] \in S
OBVIOUS

LEMMA FeedTypes ==
  ASSUME TypeOK, FeedStep
  PROVE  TypeOK'
<1>1. UNCHANGED tradeVars
  BY FeedKeepsTrades
<1>2. /\ lastSeen' \in [Markets -> Nat]
      /\ cycle' \in [Ids -> CycleSteps] /\ gaveUp' \subseteq Ids
      /\ cleared' \in BOOLEAN /\ failures' \in Nat /\ tripped' \in BOOLEAN
      /\ home' \in [Held -> Markets]
      /\ bought' \subseteq Lots /\ slipped' \subseteq Lots /\ rows' \in [Lots -> SUBSET Lots]
      /\ read' \in [Ids -> [row : Lots, lots : SUBSET Lots]]
      /\ toClose' \in [Ids -> SUBSET (SUBSET Lots)] /\ closed' \in [Ids -> SUBSET Lots]
      /\ reported' \subseteq Lots /\ inFlight' \subseteq Ids
      /\ latched' \in BOOLEAN /\ overlapped' \in BOOLEAN /\ unheard' \in BOOLEAN
  BY <1>1 DEF TypeOK, tradeVars, gateVars, bookVars, flattenVars
<1>3. CASE \E s \in Symbols : Receive(s)
  <2>1. PICK s \in Symbols : Receive(s)
    BY <1>3
  <2>2. clock' \in Nat
    BY <2>1 DEF Receive, TypeOK
  <2>3. [symbol |-> s, at |-> clock'] \in [symbol : Symbols, at : Nat]
    BY <2>2
  <2>4. ticks' \in Seq([symbol : Symbols, at : Nat]) /\ Len(ticks') = Len(ticks) + 1
    BY <2>1, <2>3 DEF Receive, TypeOK
  <2>5. Len(ticks') <= MaxTicks
    BY <2>1, <2>4, AsyncAssumption DEF Receive, TypeOK
  <2>6. Len(ticks) + 1 \in 1..Len(ticks') /\ 1..Len(ticks) \subseteq 1..Len(ticks')
    BY <2>4 DEF TypeOK
  <2>7. queue \in Seq(1..Len(ticks')) /\ tasks \in Seq(1..Len(ticks'))
    BY <2>6, LargerSeq DEF TypeOK
  <2>10. queue' \in {queue, Append(queue, Len(ticks) + 1)} /\ tasks' = tasks
    BY <2>1, <1>1 DEF Receive, tradeVars
  <2>11. Append(queue, Len(ticks) + 1) \in Seq(1..Len(ticks'))
    BY <2>6, <2>7
  <2>9. queue' \in Seq(1..Len(ticks')) /\ tasks' \in Seq(1..Len(ticks'))
    BY <2>7, <2>10, <2>11
  <2>8. /\ pipe' = pipe /\ live' = live /\ stopped' = stopped
        /\ ingest' \in {"none", "created", "connecting", "reading", "backoff", "done"}
    BY <2>1 DEF Receive, IngestGoesTo
  <2> QED BY <1>2, <2>2, <2>4, <2>5, <2>9, <2>8 DEF TypeOK
<1>4. CASE ~\E s \in Symbols : Receive(s)
  <2>1. ticks' = ticks /\ queue' = queue /\ clock' = clock
    BY <1>4 DEF FeedStep, RunForever, IngestStarts, Connect, SocketEnds, BackoffEnds, Stop, Cancel,
       LeaveLoop, BeginDrain, Drained
  <2>2. /\ pipe' \in {"idle", "polling", "closing", "draining", "over"}
        /\ ingest' \in {"none", "created", "connecting", "reading", "backoff", "done"}
        /\ live' \in BOOLEAN /\ stopped' \in {"no", "asked", "lost"}
    BY <1>4 DEF FeedStep, RunForever, IngestStarts, Connect, SocketEnds, BackoffEnds, Stop, Cancel,
       LeaveLoop, BeginDrain, Drained, IngestGoesTo, TypeOK
  <2> QED BY <1>1, <1>2, <2>1, <2>2 DEF TypeOK, tradeVars
<1> QED BY <1>3, <1>4

LEMMA TaskTypes ==
  ASSUME TypeOK, Poll \/ DrainTimesOut \/ IgnoreTick \/ HandleTick
  PROVE  TypeOK'
<1>1. CASE Poll
  BY <1>1 DEF Poll, TypeOK, tradeVars, gateVars, bookVars, flattenVars
<1>2. CASE DrainTimesOut
  <2>1. cycle' \in [Ids -> CycleSteps]
    BY <1>2 DEF DrainTimesOut, TypeOK, CycleSteps
  <2>2. gaveUp' \subseteq Ids /\ tasks' \in Seq(1..Len(ticks'))
    BY <1>2 DEF DrainTimesOut, TypeOK, feedVars
  <2> QED BY <1>2, <2>1, <2>2 DEF DrainTimesOut, TypeOK, gateVars, bookVars, flattenVars
<1>3. CASE IgnoreTick
  <2>1. tasks' \in Seq(1..Len(ticks'))
    BY <1>3 DEF IgnoreTick, TypeOK, feedVars
  <2> QED BY <1>3, <2>1 DEF IgnoreTick, TypeOK, feedVars, gateVars, bookVars, flattenVars
<1>4. CASE HandleTick
  <2> DEFINE t == Head(tasks)
  <2>1. tasks' \in Seq(1..Len(ticks')) /\ t \in 1..Len(ticks)
    BY <1>4 DEF HandleTick, TypeOK, feedVars
  <2>2. cycle' \in [Ids -> CycleSteps]
    BY <1>4 DEF HandleTick, TypeOK, GoTo, CycleSteps
  <2>5. ticks \in Seq([symbol : Symbols, at : Nat])
    BY DEF TypeOK
  <2>6. ticks[t] \in [symbol : Symbols, at : Nat]
    BY <2>1, <2>5, ElementOfSeq
  <2>3. ticks[t].at \in Nat
    BY <2>6
  <2>4. lastSeen' \in [Markets -> Nat]
    BY <1>4, <2>3 DEF HandleTick, TypeOK
  <2>7. UNCHANGED <<feedVars, gaveUp, gateVars, bookVars, flattenVars>>
    BY <1>4 DEF HandleTick
  <2> QED BY <2>1, <2>2, <2>4, <2>7 DEF TypeOK, feedVars, gateVars, bookVars, flattenVars
<1> QED BY <1>1, <1>2, <1>3, <1>4

LEMMA CycleTypes ==
  ASSUME TypeOK, NEW t \in Ids, CycleStep(t)
  PROVE  TypeOK'
<1>1. UNCHANGED <<pipe, ingest, live, clock, ticks, queue, stopped, tasks, lastSeen, gaveUp, cleared, home>>
  BY DEF CycleStep, BeginCycle, EndCycle, Preflight, MayTrade, Authorize, OrderFilled, OrderNotFilled,
     OrderRaises, ReadRow, WriteRow, BookFails, BeginFlatten, EndFlatten, FlattenUnheard, CloseMarket, CloseFails,
     feedVars, gateVars
<1>2. cycle' \in [Ids -> CycleSteps]
  BY DEF CycleStep, BeginCycle, EndCycle, Preflight, MayTrade, Authorize, OrderFilled, OrderNotFilled,
     OrderRaises, ReadRow, WriteRow, BookFails, BeginFlatten, EndFlatten, FlattenUnheard, CloseMarket, CloseFails,
     TypeOK, GoTo, CycleSteps, Threaded
<1>3. failures' \in Nat
  BY DEF CycleStep, BeginCycle, EndCycle, Preflight, MayTrade, Authorize, OrderFilled, OrderNotFilled,
     OrderRaises, ReadRow, WriteRow, BookFails, BeginFlatten, EndFlatten, FlattenUnheard, CloseMarket, CloseFails,
     TypeOK, gateVars
<1>8. tripped' = tripped \/ tripped' = (tripped \/ failures + 1 >= MaxFailures)
  BY DEF CycleStep, BeginCycle, EndCycle, Preflight, MayTrade, Authorize, OrderFilled, OrderNotFilled,
     OrderRaises, ReadRow, WriteRow, BookFails, BeginFlatten, EndFlatten, FlattenUnheard, CloseMarket, CloseFails, gateVars
<1>9. tripped' \in BOOLEAN
  BY <1>8 DEF TypeOK
<1>4. bought' \subseteq Lots /\ slipped' \subseteq Lots
  <2>1. CASE \E m \in Markets : CloseMarket(t, m)
    <3>1. PICK m \in Markets : CloseMarket(t, m)
      BY <2>1
    <3>2. \A row \in RowsOf(m, toClose[t]) : row \subseteq Lots
      BY DEF RowsOf, TypeOK
    <3>3. PICK row \in RowsOf(m, toClose[t]) :
             \E rest \in {{}, row}, told \in SUBSET (RowsOf(m, toClose[t]) \ {row}) :
               slipped' = slipped \cup rest \cup UNION told
      BY <3>1 DEF CloseMarket
    <3>6. PICK rest \in {{}, row}, told \in SUBSET (RowsOf(m, toClose[t]) \ {row}) :
             slipped' = slipped \cup rest \cup UNION told
      BY <3>3
    <3>4. UNION told \subseteq Lots /\ rest \subseteq Lots
      BY <3>2
    <3>5. slipped' \subseteq Lots
      BY <3>6, <3>4 DEF TypeOK
    <3> QED BY <3>1, <3>5 DEF CloseMarket, TypeOK
  <2>2. CASE WriteRow(t)
    <3>1. rows[read[t].row] \subseteq Lots
      BY DEF TypeOK
    <3> QED BY <2>2, <3>1 DEF WriteRow, TypeOK
  <2>3. CASE ~(\E m \in Markets : CloseMarket(t, m)) /\ ~WriteRow(t)
    BY <2>3 DEF CycleStep, BeginCycle, EndCycle, Preflight, MayTrade, Authorize, OrderFilled, OrderNotFilled,
       OrderRaises, NotBooked, ReadRow, BookFails, BeginFlatten, EndFlatten, FlattenUnheard, CloseFails,
       TypeOK, bookVars, Lots
  <2> QED BY <2>1, <2>2, <2>3
<1>10. rows' \in [Lots -> SUBSET Lots]
  <2>1. CASE WriteRow(t)
    <3>1. read[t].lots \cup {t} \subseteq Lots
      BY DEF TypeOK, Lots
    <3> QED BY <2>1, <3>1 DEF WriteRow, TypeOK
  <2>2. CASE ~WriteRow(t)
    <3>1. rows' = rows
      BY <2>2 DEF CycleStep, BeginCycle, EndCycle, Preflight, MayTrade, Authorize, OrderFilled, OrderNotFilled,
         OrderRaises, ReadRow, BookFails, BeginFlatten, EndFlatten, FlattenUnheard, CloseMarket, CloseFails,
         bookVars
    <3> QED BY <3>1 DEF TypeOK
  <2> QED BY <2>1, <2>2
<1>11. read' \in [Ids -> [row : Lots, lots : SUBSET Lots]]
  <2>1. NoRow(t) \in [row : Lots, lots : SUBSET Lots]
    BY DEF NoRow, Lots
  <2>2. \A b \in Lots : [row |-> b, lots |-> rows[b]] \in [row : Lots, lots : SUBSET Lots]
    BY DEF TypeOK
  <2>3. \/ read' = read
        \/ read' = [read EXCEPT ![t] = NoRow(t)]
        \/ \E b \in Lots : read' = [read EXCEPT ![t] = [row |-> b, lots |-> rows[b]]]
    BY DEF CycleStep, BeginCycle, EndCycle, Preflight, MayTrade, Authorize, OrderFilled, OrderNotFilled,
       OrderRaises, ReadRow, WriteRow, BookFails, BeginFlatten, EndFlatten, FlattenUnheard, CloseMarket,
       CloseFails, bookVars
  <2>4. read \in [Ids -> [row : Lots, lots : SUBSET Lots]]
    BY DEF TypeOK
  <2>5. \E new \in [row : Lots, lots : SUBSET Lots] : read' = [read EXCEPT ![t] = new] \/ read' = read
    BY <2>1, <2>2, <2>3
  <2> QED BY <2>4, <2>5
<1>6. toClose' \in [Ids -> SUBSET (SUBSET Lots)] /\ closed' \in [Ids -> SUBSET Lots] /\ reported' \subseteq Lots
  <2>1. CASE \E m \in Markets : CloseMarket(t, m) \/ CloseFails(t, m)
    <3>1. PICK m \in Markets : CloseMarket(t, m) \/ CloseFails(t, m)
      BY <2>1
    <3> DEFINE its == RowsOf(m, toClose[t])
    <3>2. \A row \in its : row \subseteq Lots
      BY DEF RowsOf, TypeOK
    <3>3. toClose[t] \ its \in SUBSET (SUBSET Lots) /\ UNION its \subseteq Lots
      BY <3>2 DEF TypeOK
    <3>4. toClose' = [toClose EXCEPT ![t] = @ \ its]
      BY <3>1 DEF CloseMarket, CloseFails
    <3>5. \/ closed' = closed
          \/ \E row \in its : closed' = [closed EXCEPT ![t] = @ \cup row]
      BY <3>1 DEF CloseMarket, CloseFails
    <3>6. reported' \subseteq reported \cup UNION its
      BY <3>1 DEF CloseMarket, CloseFails
    <3>7. toClose' \in [Ids -> SUBSET (SUBSET Lots)]
      BY <3>3, <3>4 DEF TypeOK
    <3>9. closed \in [Ids -> SUBSET Lots]
      BY DEF TypeOK
    <3>10. \A row \in its : closed[t] \cup row \in SUBSET Lots
      BY <3>2, <3>9
    <3>8. closed' \in [Ids -> SUBSET Lots]
      <4>1. CASE closed' = closed
        BY <3>9, <4>1
      <4>2. CASE \E row \in its : closed' = [closed EXCEPT ![t] = @ \cup row]
        <5>1. PICK row \in its : closed' = [closed EXCEPT ![t] = @ \cup row]
          BY <4>2
        <5> HIDE DEF its
        <5> QED BY <3>9, <3>10, <5>1
      <4> QED BY <3>5, <4>1, <4>2
    <3> QED BY <3>3, <3>6, <3>7, <3>8 DEF TypeOK
  <2>2. CASE ~\E m \in Markets : CloseMarket(t, m) \/ CloseFails(t, m)
    <3>1. closed' = closed /\ reported' = reported /\ (toClose' = toClose \/ toClose' = [toClose EXCEPT ![t] = OpenRows]
           \/ toClose' = [toClose EXCEPT ![t] = {}])
      BY <2>2 DEF CycleStep, BeginCycle, EndCycle, Preflight, MayTrade, Authorize, OrderFilled,
         OrderNotFilled, OrderRaises, ReadRow, WriteRow, BookFails, BeginFlatten, EndFlatten, FlattenUnheard,
         flattenVars
    <3>2. OpenRows \in SUBSET (SUBSET Lots)
      BY DEF OpenRows, TypeOK
    <3> QED BY <3>1, <3>2 DEF TypeOK
  <2> QED BY <2>1, <2>2
<1>7. inFlight' \subseteq Ids /\ latched' \in BOOLEAN /\ overlapped' \in BOOLEAN /\ unheard' \in BOOLEAN
  BY DEF CycleStep, BeginCycle, EndCycle, Preflight, MayTrade, Authorize, OrderFilled, OrderNotFilled,
     OrderRaises, ReadRow, WriteRow, BookFails, BeginFlatten, EndFlatten, FlattenUnheard, CloseMarket, CloseFails,
     PastGate, TypeOK, flattenVars
<1> QED BY <1>1, <1>2, <1>3, <1>4, <1>6, <1>7, <1>9, <1>10, <1>11 DEF TypeOK

LEMMA TypeStep ==
  ASSUME TypeOK, [Next]_vars
  PROVE  TypeOK'
<1>1. CASE \E t \in Ids : CycleStep(t)
  BY <1>1, CycleTypes
<1>2. CASE UNCHANGED vars
  BY <1>2 DEF vars, feedVars, tradeVars, gateVars, bookVars, flattenVars, TypeOK
<1> QED BY <1>1, <1>2, FeedTypes, TaskTypes DEF Next, FeedStep

-----------------------------------------------------------------------------
(* The steps that leave the cycles alone, and those of the tasks, leave     *)
(* every part of the invariant alone but the end.                           *)

Unmoved ==
  /\ UNCHANGED <<gateVars, bookVars, flattenVars>>
  /\ \A t \in Ids : cycle'[t] = cycle[t] \/ {cycle[t], cycle'[t]} \subseteq {"none", "queued", "done"}

LEMMA UnmovedSteps ==
  ASSUME TypeOK, FeedStep \/ Poll \/ DrainTimesOut \/ IgnoreTick \/ HandleTick
  PROVE  Unmoved
<1>1. CASE FeedStep
  BY <1>1, FeedKeepsTrades DEF tradeVars, Unmoved
<1>2. CASE Poll \/ IgnoreTick
  BY <1>2 DEF Poll, IgnoreTick, tradeVars, Unmoved
<1>3. CASE DrainTimesOut
  BY <1>3 DEF DrainTimesOut, Unmoved, TypeOK
<1>4. CASE HandleTick
  BY <1>4 DEF HandleTick, GoTo, Unmoved, TypeOK
<1> QED BY <1>1, <1>2, <1>3, <1>4

LEMMA UnmovedInv ==
  ASSUME TypeOK, Unmoved, BoughtIsBooked, Surrounded, LeftInv, OneFlatten
  PROVE  BoughtIsBooked' /\ Surrounded' /\ LeftInv' /\ OneFlatten'
<1>1. UNCHANGED <<tripped, bought, rows, slipped, toClose, closed, reported, latched, inFlight, overlapped, unheard>>
  BY DEF Unmoved, gateVars, bookVars, flattenVars
<1>2. \A t \in Ids : \A step \in {"flatten", "send", "book", "write"} : cycle'[t] = step <=> cycle[t] = step
  BY DEF Unmoved
<1>3. BoughtIsBooked'
  BY <1>1, <1>2 DEF BoughtIsBooked, Kept
<1>4. Surrounded'
  BY <1>1, <1>2 DEF Surrounded, Flattening
<1>5. LeftInv'
  BY <1>1, <1>2 DEF LeftInv, Flattening, Dealt
<1>6. OneFlatten'
  BY <1>1, <1>2 DEF OneFlatten, Flattening
<1> QED BY <1>3, <1>4, <1>5, <1>6

-----------------------------------------------------------------------------
(* The steps of a cycle.                                                    *)

(* From preflight to the broker: only Authorize lets a cycle past the gate, *)
(* and not when the switch is tripped.                                      *)
LEMMA GateSteps ==
  ASSUME TypeOK, BoughtIsBooked, Surrounded, LeftInv, OneFlatten, NEW t \in Ids,
         BeginCycle(t) \/ EndCycle(t) \/ Preflight(t) \/ MayTrade(t) \/ Authorize(t)
  PROVE  BoughtIsBooked' /\ Surrounded' /\ LeftInv' /\ OneFlatten'
<1>1. UNCHANGED <<tripped, bought, rows, slipped, toClose, closed, reported, latched, inFlight, overlapped, unheard>>
  BY DEF BeginCycle, EndCycle, Preflight, MayTrade, Authorize, gateVars, bookVars, flattenVars
<1>3. cycle[t] \notin {"flatten", "book", "write"} /\ cycle'[t] \notin {"flatten", "book", "write"}
  BY DEF BeginCycle, EndCycle, Preflight, MayTrade, Authorize, GoTo, TypeOK
<1>4. \A u \in Ids : u # t => cycle'[u] = cycle[u]
  BY DEF BeginCycle, EndCycle, Preflight, MayTrade, Authorize, GoTo, TypeOK
<1>5. cycle'[t] = "send" => ~tripped
  BY DEF BeginCycle, EndCycle, Preflight, MayTrade, Authorize, GoTo, TypeOK, PreflightPasses, SwitchBlocks
<1>6. \A u \in Ids : Flattening(u)' <=> Flattening(u)
  BY <1>3, <1>4 DEF Flattening
<1>7. BoughtIsBooked'
  BY <1>1, <1>3, <1>4 DEF BoughtIsBooked, Kept
<1>8. Surrounded'
  BY <1>1, <1>3, <1>4, <1>5, <1>6 DEF Surrounded
<1>9. LeftInv' /\ OneFlatten'
  BY <1>1, <1>6 DEF LeftInv, OneFlatten, Dealt
<1> QED BY <1>7, <1>8, <1>9

(* The broker's answers, and the booking.                                   *)
OrderStep(t) ==
  \/ OrderFilled(t) \/ OrderNotFilled(t) \/ OrderRaises(t)
  \/ ReadRow(t) \/ WriteRow(t) \/ BookFails(t)

(* What is in the table stays there or slips, whoever writes over it.       *)
LEMMA KeptStays ==
  ASSUME TypeOK, NEW t \in Ids, OrderStep(t), NEW b \in Lots, Kept(b)
  PROVE  Kept(b)'
<1>1. CASE WriteRow(t)
  <2> DEFINE at == read[t].row
  <2>1. at \in Lots /\ rows' = [rows EXCEPT ![at] = read[t].lots \cup {t}]
        /\ slipped' = slipped \cup (rows[at] \ read[t].lots)
    BY <1>1 DEF WriteRow, TypeOK
  <2>2. CASE b \in slipped
    BY <2>1, <2>2 DEF Kept
  <2>3. CASE \E a \in Lots : b \in rows[a]
    <3>1. PICK a \in Lots : b \in rows[a]
      BY <2>3
    <3>2. CASE a # at
      <4>1. rows'[a] = rows[a]
        BY <2>1, <3>2 DEF TypeOK
      <4> QED BY <3>1, <4>1 DEF Kept
    <3>3. CASE a = at
      <4>1. rows'[at] = read[t].lots \cup {t}
        BY <2>1 DEF TypeOK
      <4>2. b \in rows'[at] \/ b \in slipped'
        BY <2>1, <3>1, <3>3, <4>1
      <4> QED BY <2>1, <4>2 DEF Kept
    <3> QED BY <3>2, <3>3
  <2> QED BY <2>2, <2>3 DEF Kept
<1>2. CASE ~WriteRow(t)
  <2>1. rows' = rows /\ slipped \subseteq slipped'
    BY <1>2 DEF OrderStep, OrderFilled, OrderNotFilled, OrderRaises, NotBooked, ReadRow, BookFails
  <2> QED BY <2>1 DEF Kept
<1> QED BY <1>1, <1>2

LEMMA OrderSteps ==
  ASSUME TypeOK, BoughtIsBooked, Surrounded, LeftInv, OneFlatten, NEW t \in Ids, OrderStep(t)
  PROVE  BoughtIsBooked' /\ Surrounded' /\ LeftInv' /\ OneFlatten'
<1>1. UNCHANGED <<toClose, closed, reported, latched, inFlight, overlapped, unheard>>
  BY DEF OrderStep, OrderFilled, OrderNotFilled, OrderRaises, ReadRow, WriteRow, BookFails, flattenVars
<1>11. tripped => tripped'
  BY DEF OrderStep, OrderFilled, OrderNotFilled, OrderRaises, ReadRow, WriteRow, BookFails, gateVars
<1>2. bought' \subseteq bought \cup {t} /\ slipped \subseteq slipped' /\ bought' \subseteq Lots /\ t \in Lots
  BY DEF OrderStep, OrderFilled, OrderNotFilled, OrderRaises, NotBooked, ReadRow, WriteRow, BookFails, TypeOK, Lots
<1>3. cycle[t] \in {"send", "book", "write"} /\ cycle'[t] \in {"book", "write", "done"}
  BY DEF OrderStep, OrderFilled, OrderNotFilled, OrderRaises, ReadRow, WriteRow, BookFails, GoTo, TypeOK
<1>4. \A u \in Ids : u # t => cycle'[u] = cycle[u]
  BY DEF OrderStep, OrderFilled, OrderNotFilled, OrderRaises, ReadRow, WriteRow, BookFails, GoTo, TypeOK
<1>5. cycle'[t] \in {"book", "write"} \/ t \notin bought' \/ Kept(t)'
  <2>1. CASE OrderFilled(t) \/ ReadRow(t)
    BY <2>1 DEF OrderFilled, ReadRow, GoTo, TypeOK
  <2>2. CASE OrderNotFilled(t) \/ OrderRaises(t)
    <3>1. t \notin bought' \/ t \in slipped' \/ t \in bought
      BY <2>2 DEF OrderNotFilled, OrderRaises, NotBooked
    <3>2. cycle[t] = "send"
      BY <2>2 DEF OrderNotFilled, OrderRaises
    <3>3. t \in bought => Kept(t)
      BY <3>2 DEF BoughtIsBooked
    <3>4. t \in bought => Kept(t)'
      BY <1>2, <3>3, KeptStays
    <3> QED BY <3>1, <3>4 DEF Kept
  <2>3. CASE WriteRow(t)
    <3>1. read[t].row \in Lots /\ t \in rows'[read[t].row]
      BY <2>3 DEF WriteRow, TypeOK
    <3> QED BY <3>1 DEF Kept
  <2>4. CASE BookFails(t)
    BY <2>4 DEF BookFails, Kept
  <2> QED BY <2>1, <2>2, <2>3, <2>4 DEF OrderStep
<1>6. \A u \in Ids : Flattening(u)' <=> Flattening(u)
  BY <1>3, <1>4 DEF Flattening
<1>7. BoughtIsBooked'
  <2>1. ASSUME NEW b \in bought', b # t
        PROVE  Kept(b)' \/ (b \in Ids /\ cycle'[b] \in {"book", "write"})
    <3>1. b \in bought /\ b \in Lots
      BY <1>2, <2>1
    <3>2. CASE Kept(b)
      BY <3>1, <3>2, KeptStays
    <3>3. CASE b \in Ids /\ cycle[b] \in {"book", "write"}
      BY <1>4, <2>1, <3>3
    <3> QED BY <3>1, <3>2, <3>3 DEF BoughtIsBooked
  <2> QED BY <1>5, <2>1 DEF BoughtIsBooked
<1>8. Surrounded'
  BY <1>1, <1>11, <1>3, <1>4, <1>6 DEF Surrounded
<1>9. LeftInv'
  <2>1. latched \/ (\E u \in Ids : Flattening(u)) => Dealt(t)
    BY <1>3 DEF Surrounded, Dealt
  <2>2. \A b : Dealt(b) => Dealt(b)'
    BY <1>1, <1>2 DEF Dealt
  <2>3. ASSUME NEW u \in Ids, Flattening(u)', NEW b \in bought'
        PROVE  Dealt(b) \/ \E row \in toClose[u] : b \in row
    BY <1>2, <1>6, <2>1, <2>3 DEF LeftInv
  <2>4. ASSUME latched', NEW b \in bought' PROVE Dealt(b)
    BY <1>1, <1>2, <2>1, <2>4 DEF LeftInv
  <2> QED BY <1>1, <2>2, <2>3, <2>4 DEF LeftInv
<1>10. OneFlatten'
  BY <1>1, <1>6 DEF OneFlatten
<1> QED BY <1>7, <1>8, <1>9, <1>10

LEMMA BeginFlattenStep ==
  ASSUME TypeOK, BoughtIsBooked, Surrounded, LeftInv, OneFlatten, NEW t \in Ids, BeginFlatten(t)
  PROVE  BoughtIsBooked' /\ Surrounded' /\ LeftInv' /\ OneFlatten'
<1>1. UNCHANGED <<tripped, bought, rows, slipped, closed, reported, latched, unheard>>
  BY DEF BeginFlatten, gateVars, bookVars
<1>2. /\ cycle[t] = "verdict" /\ cycle'[t] = "flatten" /\ tripped /\ ~latched
      /\ \A u \in Ids : u # t => cycle'[u] = cycle[u] /\ toClose'[u] = toClose[u]
      /\ toClose'[t] = OpenRows
      /\ inFlight' = inFlight \cup {u \in Ids : cycle[u] \in {"send", "book", "write"}}
      /\ overlapped' = (overlapped \/ \E u \in Ids : cycle[u] = "flatten")
  BY DEF BeginFlatten, PastGate, GoTo, TypeOK
<1>3. BoughtIsBooked'
  BY <1>1, <1>2 DEF BoughtIsBooked, Kept
<1>4. Surrounded'
  BY <1>1, <1>2 DEF Surrounded
<1>5. LeftInv'
  <2>1. \A b : Dealt(b) => Dealt(b)'
    BY <1>1, <1>2 DEF Dealt
  <2>2. ASSUME NEW b \in bought PROVE Dealt(b)' \/ \E row \in toClose'[t] : b \in row
    <3>1. CASE \E at \in Lots : b \in rows[at]
      BY <1>2, <3>1 DEF OpenRows
    <3>2. CASE b \in Ids /\ cycle[b] \in {"book", "write"}
      BY <1>2, <3>2 DEF Dealt
    <3>3. CASE b \in slipped
      BY <1>1, <3>3 DEF Dealt
    <3> QED BY <3>1, <3>2, <3>3 DEF BoughtIsBooked, Kept
  <2>3. ASSUME NEW u \in Ids, u # t, Flattening(u)', NEW b \in bought
        PROVE  Dealt(b)' \/ \E row \in toClose'[u] : b \in row
    <3>1. Dealt(b) \/ \E row \in toClose[u] : b \in row
      BY <1>2, <2>3 DEF LeftInv, Flattening
    <3> QED BY <1>2, <2>1, <2>3, <3>1
  <2> QED BY <1>1, <1>2, <2>2, <2>3 DEF LeftInv
<1>6. OneFlatten'
  BY <1>1, <1>2 DEF OneFlatten, Flattening
<1> QED BY <1>3, <1>4, <1>5, <1>6

LEMMA CloseSteps ==
  ASSUME TypeOK, BoughtIsBooked, Surrounded, LeftInv, OneFlatten, NEW t \in Ids, NEW m \in Markets,
         CloseMarket(t, m) \/ CloseFails(t, m)
  PROVE  BoughtIsBooked' /\ Surrounded' /\ LeftInv' /\ OneFlatten'
<1> DEFINE its == RowsOf(m, toClose[t])
<1>1. UNCHANGED <<tripped, cycle, bought, rows, latched, inFlight, overlapped, unheard>>
  BY DEF CloseMarket, CloseFails, gateVars, bookVars
<1>2. cycle[t] = "flatten" /\ toClose' = [toClose EXCEPT ![t] = @ \ its]
  BY DEF CloseMarket, CloseFails
<1>3. /\ \A u \in Ids : u # t => toClose'[u] = toClose[u] /\ closed'[u] = closed[u]
      /\ toClose'[t] = toClose[t] \ its
      /\ closed[t] \subseteq closed'[t]
  BY <1>2 DEF CloseMarket, CloseFails, TypeOK
<1>7. slipped \subseteq slipped' /\ reported \subseteq reported'
  BY DEF CloseMarket, CloseFails, bookVars
<1>8. \A row \in its : row \subseteq closed'[t] \cup reported' \cup slipped'
  <2>1. CASE CloseFails(t, m)
    BY <2>1 DEF CloseFails
  <2>2. CASE CloseMarket(t, m)
    <3>1. PICK row \in its : \E told \in SUBSET (its \ {row}) :
             /\ closed' = [closed EXCEPT ![t] = @ \cup row]
             /\ UNION told \subseteq slipped'
             /\ UNION ((its \ {row}) \ told) \subseteq reported'
      BY <2>2 DEF CloseMarket
    <3>2. row \subseteq closed'[t]
      BY <3>1 DEF TypeOK
    <3> QED BY <3>1, <3>2
  <2> QED BY <2>1, <2>2
<1>4. BoughtIsBooked' /\ Surrounded'
  BY <1>1, <1>7 DEF BoughtIsBooked, Kept, Surrounded, Flattening
<1>5. LeftInv'
  <2>1. \A b : Dealt(b) => Dealt(b)'
    BY <1>1, <1>3, <1>7 DEF Dealt
  <2>3. \A row \in its : \A b \in row : Dealt(b)'
    BY <1>8 DEF Dealt
  <2>2. ASSUME NEW u \in Ids, Flattening(u), NEW b \in bought
        PROVE  Dealt(b)' \/ \E row \in toClose'[u] : b \in row
    <3>1. Dealt(b) \/ \E row \in toClose[u] : b \in row
      BY <2>2 DEF LeftInv
    <3>2. \A row \in toClose[u] : row \in toClose'[u] \/ (row \in its)
      BY <1>3
    <3> QED BY <2>1, <2>3, <3>1, <3>2
  <2> QED BY <1>1, <2>1, <2>2 DEF LeftInv, Flattening
<1>6. OneFlatten'
  BY <1>1, <1>2, <1>3 DEF OneFlatten, Flattening
<1> QED BY <1>4, <1>5, <1>6

LEMMA EndFlattenSteps ==
  ASSUME TypeOK, BoughtIsBooked, Surrounded, LeftInv, OneFlatten, NEW t \in Ids,
         EndFlatten(t) \/ FlattenUnheard(t)
  PROVE  BoughtIsBooked' /\ Surrounded' /\ LeftInv' /\ OneFlatten'
<1>1. UNCHANGED <<tripped, bought, rows, slipped, closed, reported, inFlight, overlapped>>
  BY DEF EndFlatten, FlattenUnheard, gateVars, bookVars
<1>2. /\ cycle[t] = "flatten" /\ cycle'[t] = "done"
      /\ \A u \in Ids : u # t => cycle'[u] = cycle[u] /\ toClose'[u] = toClose[u]
      /\ (toClose[t] = {} /\ latched' /\ unheard' = unheard) \/ (latched' = latched /\ unheard')
  BY DEF EndFlatten, FlattenUnheard, GoTo, TypeOK
<1>3. BoughtIsBooked'
  BY <1>1, <1>2 DEF BoughtIsBooked, Kept
<1>4. Surrounded'
  BY <1>1, <1>2 DEF Surrounded, Flattening
<1>5. LeftInv'
  BY <1>1, <1>2 DEF LeftInv, Flattening, Dealt
<1>6. OneFlatten'
  BY <1>1, <1>2 DEF OneFlatten, Flattening
<1> QED BY <1>3, <1>4, <1>5, <1>6

-----------------------------------------------------------------------------
LEMMA EndStep ==
  ASSUME TypeOK, EndInv, [Next]_vars
  PROVE  EndInv'
<1>1. CASE pipe # "over"
  <2>1. CASE pipe' # "over"
    BY <2>1 DEF EndInv
  <2>2. CASE pipe' = "over"
    <3>1. Drained \/ DrainTimesOut
      BY <1>1, <2>2 DEF Next, RunForever, IngestStarts, Connect, SocketEnds, BackoffEnds, Stop, Cancel,
         Receive, Poll, LeaveLoop, BeginDrain, IgnoreTick, HandleTick, CycleStep, BeginCycle, EndCycle,
         Preflight, MayTrade, Authorize, OrderFilled, OrderNotFilled, OrderRaises, ReadRow, WriteRow, BookFails, BeginFlatten,
         EndFlatten, FlattenUnheard, CloseMarket, CloseFails, feedVars, vars
    <3>2. CASE Drained
      BY <3>2 DEF Drained, EndInv, UnderWay, InThread, tradeVars
    <3>3. CASE DrainTimesOut
      BY <3>3 DEF DrainTimesOut, EndInv, InThread, Threaded
    <3> QED BY <3>1, <3>2, <3>3
  <2> QED BY <2>1, <2>2
<1>2. CASE pipe = "over"
  <2>1. tasks = <<>> /\ \A u \in Ids : cycle[u] # "queued" /\ (InThread(u) => u \in gaveUp)
    BY <1>2 DEF EndInv
  <2>2. CASE \E t \in Ids : CycleStep(t)
    <3>1. PICK t \in Ids : CycleStep(t)
      BY <2>2
    <3>2. tasks' = tasks /\ gaveUp' = gaveUp
      BY <3>1 DEF CycleStep, BeginCycle, EndCycle, Preflight, MayTrade, Authorize, OrderFilled,
         OrderNotFilled, OrderRaises, ReadRow, WriteRow, BookFails, BeginFlatten, EndFlatten, FlattenUnheard, CloseMarket, CloseFails
    <3>3. InThread(t) /\ cycle'[t] # "queued" /\ \A u \in Ids : u # t => cycle'[u] = cycle[u]
      BY <2>1, <3>1 DEF CycleStep, BeginCycle, EndCycle, Preflight, MayTrade, Authorize, OrderFilled,
         OrderNotFilled, OrderRaises, ReadRow, WriteRow, BookFails, BeginFlatten, EndFlatten, FlattenUnheard, CloseMarket,
         CloseFails, GoTo, TypeOK, InThread, Threaded
    <3> QED BY <2>1, <3>2, <3>3 DEF EndInv, InThread
  <2>3. CASE ~\E t \in Ids : CycleStep(t)
    <3>1. UNCHANGED <<tasks, cycle, gaveUp>>
      BY <1>2, <2>1, <2>3 DEF Next, RunForever, IngestStarts, Connect, SocketEnds, BackoffEnds, Stop, Cancel,
         Receive, Poll, LeaveLoop, BeginDrain, Drained, DrainTimesOut, IgnoreTick, HandleTick, tradeVars, vars
    <3> QED BY <2>1, <3>1 DEF EndInv, InThread
  <2> QED BY <2>2, <2>3
<1> QED BY <1>1, <1>2

LEMMA StepInv == Inv /\ [Next]_vars => Inv'
<1> SUFFICES ASSUME Inv, [Next]_vars PROVE Inv'
  OBVIOUS
<1> USE DEF Inv
<1>1. TypeOK' /\ EndInv'
  BY TypeStep, EndStep
<1>2. CASE UNCHANGED vars
  <2>1. Unmoved
    BY <1>2 DEF vars, tradeVars, Unmoved
  <2> QED BY <1>1, <2>1, UnmovedInv
<1>3. CASE \E t \in Ids : CycleStep(t)
  <2>1. PICK t \in Ids : CycleStep(t)
    BY <1>3
  <2> QED BY <1>1, <2>1, GateSteps, OrderSteps, BeginFlattenStep, CloseSteps, EndFlattenSteps DEF CycleStep, OrderStep
<1>4. CASE Next /\ ~\E t \in Ids : CycleStep(t)
  <2>1. Unmoved
    BY <1>4, UnmovedSteps DEF Next, FeedStep
  <2> QED BY <1>1, <2>1, UnmovedInv
<1> QED BY <1>2, <1>3, <1>4

(* The feed, the cycles and the books have the types that async_daemon.py   *)
(* and async_streaming.py give them.                                        *)
THEOREM TypeCorrect == Spec => []TypeOK
<1>1. Inv => TypeOK
  BY DEF Inv
<1> QED BY <1>1, InitInv, StepInv, PTL DEF Spec

(* flatten() closes no position twice, but when two of them overlap or one  *)
(* raised before its latch.                                                 *)
THEOREM FlattenClosesOnce == Spec => []ClosedOnce
<1>1. Inv => ClosedOnce
  BY DEF Inv, OneFlatten, ClosedOnce
<1> QED BY <1>1, InitInv, StepInv, PTL DEF Spec

(* After a flatten nothing is held that was not reported, was not in flight *)
(* and did not slip past the books or the partial fills.                    *)
THEOREM FlattenLeavesNothing == Spec => []NothingLeftBehind
<1>1. Inv => NothingLeftBehind
  BY DEF Inv, LeftInv, Dealt, NothingLeftBehind
<1> QED BY <1>1, InitInv, StepInv, PTL DEF Spec

(* Behind run_forever only cycles that the drain gave up still trade.       *)
THEOREM LateOrders == Spec => LateOrdersWereGivenUp
<1>1. Inv /\ [Next]_vars => [pipe = "over" => bought' \ bought \subseteq gaveUp]_vars
  <2> SUFFICES ASSUME Inv, Next, pipe = "over", NEW b \in bought' \ bought PROVE b \in gaveUp
    BY DEF vars, tradeVars, bookVars
  <2>1. PICK t \in Ids : OrderFilled(t) \/ OrderNotFilled(t) \/ OrderRaises(t)
    BY DEF Next, RunForever, IngestStarts, Connect, SocketEnds, BackoffEnds, Stop, Cancel, Receive, Poll,
       LeaveLoop, BeginDrain, Drained, DrainTimesOut, IgnoreTick, HandleTick, CycleStep, BeginCycle,
       EndCycle, Preflight, MayTrade, Authorize, ReadRow, WriteRow, BookFails, BeginFlatten,
       EndFlatten, FlattenUnheard, CloseMarket, CloseFails, tradeVars, bookVars
  <2>2. b = t /\ InThread(t)
    BY <2>1 DEF OrderFilled, OrderNotFilled, OrderRaises, NotBooked, InThread, Threaded
  <2> QED BY <2>2 DEF Inv, EndInv
<1> QED BY <1>1, InitInv, StepInv, PTL DEF Spec, LateOrdersWereGivenUp
=============================================================================
