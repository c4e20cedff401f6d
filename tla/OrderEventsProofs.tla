--------------------------- MODULE OrderEventsProofs ---------------------------
(***************************************************************************)
(* Proofs about OrderEvents for every set of threads, trades and events,    *)
(* whatever the events say, and any number of crashes.                      *)
(*                                                                          *)
(* That the portfolio gets an event once does not follow from the checks of *)
(* apply() alone: between the check and the update the thread holds nothing *)
(* but the lock.  HandInv says what the lock buys (one holder of a trade)   *)
(* and what a thread at each step has already made durable; JournalInv says *)
(* what is left of that when the thread is gone.                            *)
(*                                                                          *)
(* And about the other faces of MCOrderEvents, for any numbers of loops,    *)
(* handlers, messages, threads, connections, nodes, processes and files:    *)
(* the lock on a file, the advisory lock, the pool, the queue.              *)
(***************************************************************************)
EXTENDS MCOrderEvents, SequenceTheorems, FiniteSetTheorems, TLAPS

(* A thread is in apply() exactly when it has an event in hand.             *)
IdleHasNoJob == \A w \in Workers : pc[w] = "idle" <=> job[w] = NoEvent

(* The lock of a trade has one holder.                                      *)
OneHolder ==
  \A v, w \in Workers :
    (job[v] # NoEvent /\ job[w] # NoEvent /\ TradeOf(job[v]) = TradeOf(job[w])) => v = w

(* What the thread at each step has made durable, and what it has not.      *)
Progress(w) ==
  /\ pc[w] \in {"persist", "publish", "mark", "portfolio"} => job[w] \in recorded
  /\ pc[w] \in {"mark", "portfolio"} => delivered[job[w]] > 0
  /\ pc[w] = "portfolio" => job[w] \in marked
  /\ pc[w] \in {"move"} \cup Effects => applied[job[w]] = 0
  /\ pc[w] = "move" => CanMove(memory[TradeOf(job[w])].status, report[job[w]].to)

HandInv == IdleHasNoJob /\ OneHolder /\ \A w \in Workers : Progress(w)

(* The replay only handles what is journaled.                               *)
ReplayInv ==
  /\ outbox \subseteq recorded
  /\ sending # NoEvent => delivered[sending] > 0

JournalInv == OutboxIsHonest /\ AppliedOnce /\ ReplayInv

(* The stored trade is never ahead of the trade in memory.                  *)
StoredBehind == \A t \in Trades : Later(stored[t].status, memory[t].status)

Inv == TypeOK /\ HandInv /\ JournalInv /\ StoredBehind

-----------------------------------------------------------------------------
(* Every transition that passes the guard leads to a later status.          *)
LEMMA MoveIsLater ==
  ASSUME NEW a \in Statuses, NEW b \in Statuses, NEW c \in Statuses,
         Later(a, b), CanMove(b, c)
  PROVE  Later(a, c)
BY DEF Statuses, Later, CanMove, ValidTransitions

LEMMA LaterReflexive == ASSUME NEW a PROVE Later(a, a)
BY DEF Later

(* One more, saturating: the count of e is positive, the others stay.       *)
LEMMA OnceCounts ==
  ASSUME NEW count \in [Events -> 0..2], NEW e \in Events
  PROVE  /\ Once(count, e) \in [Events -> 0..2]
         /\ Once(count, e)[e] > 0
         /\ count[e] = 0 => Once(count, e)[e] = 1
         /\ \A x \in Events : x # e => Once(count, e)[x] = count[x]
         /\ \A x \in Events : count[x] > 0 => Once(count, e)[x] > 0
<1> DEFINE n == IF count[e] < 2 THEN count[e] + 1 ELSE 2
<1>1. count[e] \in 0..2
  OBVIOUS
<1>2. n \in 0..2 /\ n > 0 /\ (count[e] = 0 => n = 1)
  BY <1>1
<1>3. Once(count, e) = [count EXCEPT ![e] = n]
  BY DEF Once
<1> HIDE DEF n
<1> QED
  BY <1>2, <1>3

LEMMA Initially == Init => Inv
<1> SUFFICES ASSUME Init PROVE Inv
  OBVIOUS
<1> USE EventsAssumption DEF Init
<1>1. TypeOK
  <2>1. memory \in [Trades -> [status : Statuses, events : SUBSET Events]]
    BY DEF NewTrade, Statuses
  <2>2. stored = memory
    OBVIOUS
  <2>3. /\ pc \in [Workers -> Steps] /\ job \in [Workers -> Events \cup {NoEvent}]
        /\ delivered \in [Events -> 0..2] /\ applied \in [Events -> 0..2]
        /\ outbox \subseteq Events /\ sending \in Events \cup {NoEvent}
        /\ crashes \in 0..MaxCrashes
    BY DEF Steps
  <2>4. /\ report \in [Events -> [trade : Trades, to : Statuses, sound : BOOLEAN]]
        /\ seen \subseteq Events /\ recorded \subseteq Events /\ marked \subseteq Events
        /\ faulty \in BOOLEAN
    OBVIOUS
  <2> QED
    BY <2>1, <2>2, <2>3, <2>4 DEF TypeOK
<1>2. HandInv
  BY DEF HandInv, IdleHasNoJob, OneHolder, Progress, Effects
<1>3. JournalInv
  BY DEF JournalInv, OutboxIsHonest, AppliedOnce, ReplayInv
<1>4. StoredBehind
  BY LaterReflexive DEF StoredBehind
<1> QED
  BY <1>1, <1>2, <1>3, <1>4 DEF Inv

-----------------------------------------------------------------------------
(* Steps inside apply() that change no journal, store or history.           *)
LEMMA ArriveStep ==
  ASSUME Inv, NEW w \in Workers, NEW e \in Events, Arrive(w, e)
  PROVE  Inv'
<1> USE EventsAssumption DEF Inv, Arrive, engine, journal, replayer
<1>1. TypeOK'
  BY DEF TypeOK, Steps
<1>2. IdleHasNoJob'
  BY DEF TypeOK, HandInv, IdleHasNoJob
<1>3. OneHolder'
  BY DEF TypeOK, HandInv, IdleHasNoJob, OneHolder, Locked, TradeOf
<1>4. \A v \in Workers : Progress(v)'
  BY DEF TypeOK, HandInv, Progress, Effects, TradeOf, CanMove
<1>5. JournalInv' /\ StoredBehind'
  BY DEF JournalInv, OutboxIsHonest, AppliedOnce, ReplayInv, StoredBehind
<1> QED
  BY <1>1, <1>2, <1>3, <1>4, <1>5 DEF HandInv

LEMMA ReturnStep ==
  ASSUME Inv, NEW w \in Workers, Duplicate(w) \/ Refuse(w) \/ Raise(w)
  PROVE  Inv'
<1> USE EventsAssumption DEF Inv, Duplicate, Refuse, Raise, Leave, engine, journal, replayer
<1>1. TypeOK'
  BY DEF TypeOK, Steps
<1>2. IdleHasNoJob' /\ OneHolder'
  BY DEF TypeOK, HandInv, IdleHasNoJob, OneHolder, TradeOf
<1>3. \A v \in Workers : Progress(v)'
  BY DEF TypeOK, HandInv, Progress, Effects, TradeOf, CanMove
<1>4. JournalInv' /\ StoredBehind'
  BY DEF JournalInv, OutboxIsHonest, AppliedOnce, ReplayInv, StoredBehind
<1> QED
  BY <1>1, <1>2, <1>3, <1>4 DEF HandInv

(* An event that is not a duplicate has not reached the portfolio: whatever *)
(* did is journaled.                                                        *)
LEMMA AcceptStep ==
  ASSUME Inv, NEW w \in Workers, Accept(w)
  PROVE  Inv'
<1> USE EventsAssumption DEF Inv, Accept, engine, journal, replayer
<1>1. TypeOK'
  BY DEF TypeOK, Steps
<1>2. IdleHasNoJob' /\ OneHolder'
  BY DEF TypeOK, HandInv, IdleHasNoJob, OneHolder, TradeOf
<1>3. job[w] \in Events
  BY DEF TypeOK, HandInv, IdleHasNoJob
<1>4. applied[job[w]] = 0
  <2>1. applied[job[w]] \in 0..2 /\ ~(applied[job[w]] > 0)
    BY <1>3 DEF TypeOK, JournalInv, OutboxIsHonest, IsDuplicate
  <2> QED
    BY <2>1
<1>5. \A v \in Workers : Progress(v)'
  BY <1>4 DEF TypeOK, HandInv, Progress, Effects, TradeOf, CanMove, Acceptable
<1>6. JournalInv' /\ StoredBehind'
  BY DEF JournalInv, OutboxIsHonest, AppliedOnce, ReplayInv, StoredBehind
<1> QED
  BY <1>1, <1>2, <1>5, <1>6 DEF HandInv

LEMMA MoveStep ==
  ASSUME Inv, NEW w \in Workers, Move(w)
  PROVE  Inv'
<1> USE EventsAssumption DEF Inv, Move, Advance, Following, journal, replayer
<1> DEFINE t == TradeOf(job[w])
<1>1. job[w] \in Events /\ t \in Trades
  BY DEF TypeOK, HandInv, IdleHasNoJob, TradeOf
<1>2. pc' = [pc EXCEPT ![w] = "record"] /\ job' = job
  BY DEF TypeOK
<1>3. memory' = [memory EXCEPT ![t] = [status |-> report[job[w]].to,
                                       events |-> memory[t].events \cup {job[w]}]]
  BY <1>1 DEF TypeOK
<1>4. [status |-> report[job[w]].to, events |-> memory[t].events \cup {job[w]}]
        \in [status : Statuses, events : SUBSET Events]
  BY <1>1 DEF TypeOK
<1>5. TypeOK'
  <2>1. TypeOK
    OBVIOUS
  <2>2. /\ UNCHANGED <<report, stored, recorded, marked, outbox, sending, delivered, applied,
                       faulty, crashes>>
        /\ seen' = seen \cup {job[w]}
    OBVIOUS
  <2> HIDE DEF Inv, Move, Advance, Following, t
  <2>3. memory' \in [Trades -> [status : Statuses, events : SUBSET Events]]
    BY <1>1, <1>3, <1>4, <2>1 DEF TypeOK
  <2>4. pc' \in [Workers -> Steps]
    BY <1>2, <2>1 DEF TypeOK, Steps, Effects
  <2> QED
    BY <1>1, <1>2, <2>1, <2>2, <2>3, <2>4 DEF TypeOK
<1>6. IdleHasNoJob' /\ OneHolder'
  BY <1>2 DEF TypeOK, HandInv, IdleHasNoJob, OneHolder, TradeOf
<1>7. \A v \in Workers : Progress(v)'
  <2> SUFFICES ASSUME NEW v \in Workers PROVE Progress(v)'
    OBVIOUS
  <2>1. CASE v = w
    BY <2>1, <1>2 DEF TypeOK, HandInv, Progress, Effects
  <2>2. CASE v # w
    <3>1. pc'[v] = pc[v] /\ job'[v] = job[v] /\ Progress(v)
      BY <2>2, <1>2 DEF TypeOK, HandInv
    <3>2. pc[v] = "move" => memory'[TradeOf(job[v])] = memory[TradeOf(job[v])]
      BY <2>2, <1>1, <1>3 DEF TypeOK, HandInv, IdleHasNoJob, OneHolder, TradeOf
    <3> QED
      BY <3>1, <3>2 DEF Progress, TradeOf, CanMove
  <2> QED
    BY <2>1, <2>2
<1>8. JournalInv'
  BY DEF JournalInv, OutboxIsHonest, AppliedOnce, ReplayInv
<1>9. StoredBehind'
  <2> SUFFICES ASSUME NEW u \in Trades
               PROVE  Later(stored[u].status, memory'[u].status)
    BY DEF StoredBehind
  <2>1. CASE u = t
    <3>1. memory'[u].status = report[job[w]].to
      BY <2>1, <1>1, <1>3 DEF TypeOK
    <3>2. CanMove(memory[u].status, report[job[w]].to)
      BY <2>1 DEF HandInv, Progress
    <3>3. Later(stored[u].status, memory[u].status)
      BY DEF StoredBehind
    <3>4. /\ stored[u].status \in Statuses /\ memory[u].status \in Statuses
          /\ report[job[w]].to \in Statuses
      BY <1>1 DEF TypeOK
    <3> QED
      BY <3>1, <3>2, <3>3, <3>4, MoveIsLater
  <2>2. CASE u # t
    BY <2>2, <1>3 DEF TypeOK, StoredBehind
  <2> QED
    BY <2>1, <2>2
<1> QED
  BY <1>5, <1>6, <1>7, <1>8, <1>9 DEF HandInv

-----------------------------------------------------------------------------
(* The effects.  Each needs its thread to be the only one with the event.   *)
LEMMA HolderOfJob ==
  ASSUME Inv, NEW v \in Workers, NEW w \in Workers, job[w] # NoEvent, job[v] = job[w]
  PROVE  v = w
BY DEF Inv, HandInv, OneHolder, TradeOf

LEMMA RecordStep ==
  ASSUME Inv, NEW w \in Workers, Record(w)
  PROVE  Inv'
<1> USE EventsAssumption DEF Inv, Record, Advance, Following, engine, replayer
<1>1. job[w] \in Events /\ pc' = [pc EXCEPT ![w] = "persist"] /\ job' = job
  BY DEF TypeOK, HandInv, IdleHasNoJob
<1>2. TypeOK'
  BY <1>1 DEF TypeOK, Steps, Effects
<1>3. IdleHasNoJob' /\ OneHolder'
  BY <1>1 DEF TypeOK, HandInv, IdleHasNoJob, OneHolder, TradeOf
<1>4. \A v \in Workers : Progress(v)'
  BY <1>1 DEF TypeOK, HandInv, Progress, Effects, TradeOf, CanMove
<1>5. JournalInv' /\ StoredBehind'
  BY DEF JournalInv, OutboxIsHonest, AppliedOnce, ReplayInv, StoredBehind
<1> QED
  BY <1>2, <1>3, <1>4, <1>5 DEF HandInv

LEMMA PersistStep ==
  ASSUME Inv, NEW w \in Workers, Persist(w)
  PROVE  Inv'
<1> USE EventsAssumption DEF Inv, Persist, Advance, Following, journal, replayer
<1>1. job[w] \in Events /\ pc' = [pc EXCEPT ![w] = "publish"] /\ job' = job
  BY DEF TypeOK, HandInv, IdleHasNoJob
<1>2. TypeOK'
  <2>1. stored' \in [Trades -> [status : Statuses, events : SUBSET Events]]
    BY <1>1 DEF TypeOK, TradeOf
  <2> QED
    BY <1>1, <2>1 DEF TypeOK, Steps, Effects
<1>3. IdleHasNoJob' /\ OneHolder'
  BY <1>1 DEF TypeOK, HandInv, IdleHasNoJob, OneHolder, TradeOf
<1>4. \A v \in Workers : Progress(v)'
  BY <1>1 DEF TypeOK, HandInv, Progress, Effects, TradeOf, CanMove
<1>5. JournalInv'
  BY DEF JournalInv, OutboxIsHonest, AppliedOnce, ReplayInv
<1>6. StoredBehind'
  <2> SUFFICES ASSUME NEW u \in Trades
               PROVE  Later(stored'[u].status, memory[u].status)
    BY DEF StoredBehind
  <2>1. stored'[u] = memory[u] \/ stored'[u] = stored[u]
    BY DEF TypeOK
  <2> QED
    BY <2>1, LaterReflexive DEF StoredBehind
<1> QED
  BY <1>2, <1>3, <1>4, <1>5, <1>6 DEF HandInv

LEMMA PublishStep ==
  ASSUME Inv, NEW w \in Workers, Publish(w)
  PROVE  Inv'
<1> USE EventsAssumption DEF Inv, Publish, Advance, Following, engine, journal, replayer
<1>1. job[w] \in Events /\ pc' = [pc EXCEPT ![w] = "mark"] /\ job' = job
  BY DEF TypeOK, HandInv, IdleHasNoJob
<1>2. /\ delivered' \in [Events -> 0..2]
      /\ delivered'[job[w]] > 0
      /\ \A e \in Events : e # job[w] => delivered'[e] = delivered[e]
      /\ \A e \in Events : delivered[e] > 0 => delivered'[e] > 0
  <2>1. delivered \in [Events -> 0..2] /\ delivered' = Once(delivered, job[w])
    BY DEF TypeOK
  <2> HIDE DEF Inv, Publish, Advance, Following
  <2> QED BY <1>1, <2>1, OnceCounts
<1>3. TypeOK'
  <2>1. /\ UNCHANGED <<report, memory, stored, seen, recorded, marked, outbox, sending, applied,
                       faulty, crashes>>
        /\ TypeOK
    OBVIOUS
  <2> HIDE DEF Inv, Publish, Advance, Following
  <2>2. pc' \in [Workers -> Steps]
    BY <1>1, <2>1 DEF TypeOK, Steps, Effects
  <2> QED
    BY <1>1, <1>2, <2>1, <2>2 DEF TypeOK
<1>4. IdleHasNoJob' /\ OneHolder'
  BY <1>1 DEF TypeOK, HandInv, IdleHasNoJob, OneHolder, TradeOf
<1>5. \A v \in Workers : Progress(v)'
  <2> SUFFICES ASSUME NEW v \in Workers PROVE Progress(v)'
    OBVIOUS
  <2>1. CASE v = w
    BY <2>1, <1>1, <1>2 DEF TypeOK, HandInv, Progress, Effects
  <2>2. CASE v # w
    <3>1. pc'[v] = pc[v] /\ Progress(v)
      BY <2>2, <1>1 DEF TypeOK, HandInv
    <3>2. pc[v] \in {"mark", "portfolio"} => job[v] \in Events
      BY DEF TypeOK, HandInv, IdleHasNoJob
    <3> QED
      BY <3>1, <3>2, <1>1, <1>2 DEF Progress, TradeOf, CanMove, Effects
  <2> QED
    BY <2>1, <2>2
<1>6. job[w] \in recorded
  BY DEF HandInv, Progress
<1>7. JournalInv'
  BY <1>1, <1>2, <1>6 DEF TypeOK, JournalInv, OutboxIsHonest, AppliedOnce, ReplayInv
<1>8. StoredBehind'
  BY DEF StoredBehind
<1> QED
  BY <1>3, <1>4, <1>5, <1>7, <1>8 DEF HandInv

LEMMA MarkStep ==
  ASSUME Inv, NEW w \in Workers, MarkPublished(w)
  PROVE  Inv'
<1> USE EventsAssumption DEF Inv, MarkPublished, Advance, Following, engine, replayer
<1>1. job[w] \in Events /\ pc' = [pc EXCEPT ![w] = "portfolio"] /\ job' = job
  BY DEF TypeOK, HandInv, IdleHasNoJob
<1>2. TypeOK'
  BY <1>1 DEF TypeOK, Steps, Effects
<1>3. IdleHasNoJob' /\ OneHolder'
  BY <1>1 DEF TypeOK, HandInv, IdleHasNoJob, OneHolder, TradeOf
<1>4. \A v \in Workers : Progress(v)'
  BY <1>1 DEF TypeOK, HandInv, Progress, Effects, TradeOf, CanMove
<1>5. delivered[job[w]] > 0
  BY DEF HandInv, Progress
<1>6. JournalInv' /\ StoredBehind'
  BY <1>5 DEF JournalInv, OutboxIsHonest, AppliedOnce, ReplayInv, StoredBehind
<1> QED
  BY <1>2, <1>3, <1>4, <1>6 DEF HandInv

LEMMA PortfolioStep ==
  ASSUME Inv, NEW w \in Workers, UpdatePortfolio(w)
  PROVE  Inv'
<1> USE EventsAssumption DEF Inv, UpdatePortfolio, Advance, Following, engine, journal, replayer
<1>1. /\ job[w] \in Events
      /\ pc' = [pc EXCEPT ![w] = "idle"] /\ job' = [job EXCEPT ![w] = NoEvent]
  BY DEF TypeOK, HandInv, IdleHasNoJob
<1>2. applied[job[w]] = 0
  BY DEF HandInv, Progress, Effects
<1>3. /\ applied' \in [Events -> 0..2]
      /\ applied'[job[w]] = 1
      /\ \A e \in Events : e # job[w] => applied'[e] = applied[e]
  BY <1>1, <1>2, OnceCounts DEF TypeOK
<1>4. TypeOK'
  BY <1>1, <1>3 DEF TypeOK, Steps, Effects
<1>5. IdleHasNoJob' /\ OneHolder'
  BY <1>1 DEF TypeOK, HandInv, IdleHasNoJob, OneHolder, TradeOf
<1>6. \A v \in Workers : Progress(v)'
  <2> SUFFICES ASSUME NEW v \in Workers PROVE Progress(v)'
    OBVIOUS
  <2>1. CASE v = w
    BY <2>1, <1>1 DEF TypeOK, Progress, Effects
  <2>2. CASE v # w
    <3>1. pc'[v] = pc[v] /\ job'[v] = job[v] /\ Progress(v)
      BY <2>2, <1>1 DEF TypeOK, HandInv
    <3>2. job[v] # job[w]
      BY <2>2, <1>1, HolderOfJob
    <3>3. pc[v] \in {"move"} \cup Effects => job[v] \in Events
      BY DEF TypeOK, HandInv, IdleHasNoJob, Effects
    <3> QED
      BY <3>1, <3>2, <3>3, <1>3 DEF Progress, TradeOf, CanMove, Effects
  <2> QED
    BY <2>1, <2>2
<1>7. job[w] \in marked
  BY DEF HandInv, Progress
<1>8. JournalInv'
  <2>1. \A e \in Events : applied'[e] <= 1 /\ (applied'[e] > 0 => e \in marked)
    <3> SUFFICES ASSUME NEW e \in Events
                 PROVE  applied'[e] <= 1 /\ (applied'[e] > 0 => e \in marked)
      OBVIOUS
    <3>1. CASE e = job[w]
      BY <3>1, <1>3, <1>7
    <3>2. CASE e # job[w]
      BY <3>2, <1>3 DEF JournalInv, OutboxIsHonest, AppliedOnce
    <3> QED
      BY <3>1, <3>2
  <2> QED
    BY <2>1 DEF JournalInv, OutboxIsHonest, AppliedOnce, ReplayInv
<1>9. StoredBehind'
  BY DEF StoredBehind
<1> QED
  BY <1>4, <1>5, <1>6, <1>8, <1>9 DEF HandInv

-----------------------------------------------------------------------------
(* The replay, which takes no lock, and the crash.                          *)
LEMMA ReplayStep ==
  ASSUME Inv, FetchPending \/ (\E e \in Events : Republish(e)) \/ MarkRepublished \/ AbandonReplay
  PROVE  Inv'
<1> USE EventsAssumption DEF Inv, engine, journal
<1>1. CASE FetchPending \/ AbandonReplay
  <2>1. /\ UNCHANGED <<report, memory, stored, seen, recorded, marked, pc, job, delivered, applied,
                       faulty, crashes>>
        /\ outbox' \subseteq recorded /\ outbox' \subseteq Events /\ sending' = NoEvent
    BY <1>1 DEF FetchPending, AbandonReplay, TypeOK
  <2>2. TypeOK' /\ ReplayInv'
    BY <2>1 DEF TypeOK, JournalInv, ReplayInv
  <2> HIDE DEF Inv
  <2>5. Inv
    OBVIOUS
  <2>6. IdleHasNoJob' /\ OneHolder'
    BY <2>1, <2>5 DEF Inv, HandInv, IdleHasNoJob, OneHolder, TradeOf
  <2>7. \A w \in Workers : Progress(w)'
    BY <2>1, <2>5 DEF Inv, HandInv, Progress, TradeOf, CanMove
  <2>4. OutboxIsHonest' /\ AppliedOnce' /\ StoredBehind'
    BY <2>1, <2>5 DEF Inv, JournalInv, OutboxIsHonest, AppliedOnce, StoredBehind
  <2> QED BY <2>2, <2>4, <2>6, <2>7 DEF Inv, HandInv, JournalInv
<1>2. ASSUME NEW e \in Events, Republish(e) PROVE Inv'
  <2>1. /\ delivered' \in [Events -> 0..2] /\ delivered'[e] > 0
        /\ \A x \in Events : delivered[x] > 0 => delivered'[x] > 0
        /\ \A x \in Events : x # e => delivered'[x] = delivered[x]
    BY <1>2, OnceCounts DEF Republish, TypeOK
  <2>2. TypeOK' /\ IdleHasNoJob' /\ OneHolder' /\ StoredBehind'
    BY <1>2, <2>1 DEF Republish, TypeOK, HandInv, IdleHasNoJob, OneHolder, TradeOf, StoredBehind
  <2>3. \A w \in Workers : Progress(w)'
    <3> SUFFICES ASSUME NEW w \in Workers PROVE Progress(w)'
      OBVIOUS
    <3>1. pc[w] \in {"mark", "portfolio"} => job[w] \in Events
      BY DEF TypeOK, HandInv, IdleHasNoJob
    <3> QED
      BY <1>2, <2>1, <3>1 DEF Republish, HandInv, Progress, TradeOf, CanMove, Effects
  <2>4. e \in recorded
    BY <1>2 DEF Republish, JournalInv, ReplayInv
  <2>5. JournalInv'
    BY <1>2, <2>1, <2>4 DEF Republish, TypeOK, JournalInv, OutboxIsHonest, AppliedOnce, ReplayInv
  <2> QED
    BY <2>2, <2>3, <2>5 DEF HandInv
<1>3. CASE MarkRepublished
  BY <1>3 DEF MarkRepublished, TypeOK, HandInv, IdleHasNoJob, OneHolder,
              Progress, TradeOf, CanMove, Effects, JournalInv, OutboxIsHonest, AppliedOnce,
              ReplayInv, StoredBehind
<1> QED
  BY <1>1, <1>2, <1>3

LEMMA CrashStep == ASSUME Inv, Crash PROVE Inv'
<1> USE EventsAssumption DEF Inv, Crash, journal
<1>1. TypeOK'
  BY DEF TypeOK, Steps
<1>2. HandInv'
  BY DEF HandInv, IdleHasNoJob, OneHolder, Progress, Effects
<1>3. JournalInv'
  BY DEF JournalInv, OutboxIsHonest, AppliedOnce, ReplayInv
<1>4. StoredBehind'
  BY LaterReflexive DEF StoredBehind
<1> QED
  BY <1>1, <1>2, <1>3, <1>4

LEMMA NextStep == Inv /\ [Next]_vars => Inv'
<1> SUFFICES ASSUME Inv, [Next]_vars PROVE Inv'
  OBVIOUS
<1>1. ASSUME NEW w \in Workers, NEW e \in Events, Arrive(w, e) PROVE Inv'
  BY <1>1, ArriveStep
<1>2. ASSUME NEW w \in Workers, ApplyStep(w) PROVE Inv'
  BY <1>2, ReturnStep, AcceptStep, MoveStep, RecordStep, PersistStep, PublishStep,
     MarkStep, PortfolioStep DEF ApplyStep
<1>3. CASE FetchPending \/ (\E e \in Events : Republish(e)) \/ MarkRepublished \/ AbandonReplay
  BY <1>3, ReplayStep
<1>4. CASE Crash
  BY <1>4, CrashStep
<1>5. CASE UNCHANGED vars
  BY <1>5 DEF vars, engine, journal, replayer, Inv, TypeOK, HandInv, IdleHasNoJob, OneHolder,
              Progress, TradeOf, CanMove, JournalInv, OutboxIsHonest, AppliedOnce,
              ReplayInv, StoredBehind
<1> QED
  BY <1>1, <1>2, <1>3, <1>4, <1>5 DEF Next

(* The inductive invariant holds in every reachable state.                  *)
THEOREM Invariance == Spec => []Inv
BY Initially, NextStep, PTL DEF Spec

(* For any threads, trades, events and crashes: the engine's state is type- *)
(* correct and the portfolio gets every event at most once.                 *)
THEOREM AtMostOnce == Spec => [](TypeOK /\ AppliedOnce)
<1>1. Inv => TypeOK /\ AppliedOnce
  BY DEF Inv, JournalInv
<1> QED
  BY <1>1, Invariance, PTL

(* ... and the outbox is never wrong about what was published.              *)
THEOREM HonestOutbox == Spec => []OutboxIsHonest
<1>1. Inv => OutboxIsHonest
  BY DEF Inv, JournalInv
<1> QED
  BY <1>1, Invariance, PTL

(* ... and a stored trade only moves on along the lifecycle.                *)
THEOREM ForwardOnly == Spec => StoredMovesForward
<1>1. Inv /\ [Next]_vars => [\A t \in Trades : Later(stored[t].status, stored'[t].status)]_vars
  <2> SUFFICES ASSUME Inv, [Next]_vars, NEW t \in Trades
               PROVE  Later(stored[t].status, stored'[t].status)
    OBVIOUS
  <2>1. stored'[t] = stored[t] \/ stored'[t] = memory[t]
    <3>1. ASSUME NEW w \in Workers, Persist(w) PROVE stored'[t] = stored[t] \/ stored'[t] = memory[t]
      BY <3>1 DEF Inv, TypeOK, Persist
    <3>2. CASE stored' = stored
      BY <3>2
    <3> QED
      BY <3>1, <3>2 DEF Next, ApplyStep, Arrive, Duplicate, Refuse, Accept, Move, Record, Publish,
         MarkPublished, UpdatePortfolio, Raise, FetchPending, Republish, MarkRepublished,
         AbandonReplay, Crash, vars, engine
  <2> QED
    BY <2>1, LaterReflexive DEF Inv, StoredBehind
<1> QED
  BY <1>1, Invariance, PTL DEF Spec, StoredMovesForward

-----------------------------------------------------------------------------
(* The lock file.  Files are numbered as they are created, so the one at    *)
(* the path is the last, and any other has been removed; a process that has *)
(* removed a file does not hold it.  Two leaders that are excused in no way *)
(* would have to hold the lock of one file.                                 *)
LockFileTyped ==
  /\ files \in 0..MaxFiles /\ path \in 0..files
  /\ owner \in [LockFile!Files -> Trio \cup {NoEvent}]
  /\ removed \in [LockFile!Files -> Trio \cup {NoEvent}]
  /\ opened \in [Trio -> 0..files]
  /\ leads \in [Trio -> BOOLEAN]
  /\ phase \in [Trio -> {"idle", "open", "released"}]

RemovedIsGone ==
  /\ \A f \in LockFile!Files : f <= files /\ removed[f] = NoEvent => path = f
  /\ \A f \in LockFile!Files : f > files => removed[f] = NoEvent
  /\ path # 0 => removed[path] = NoEvent

LeaderHoldsLock ==
  \A p \in Trio :
    /\ leads[p] /\ phase[p] = "idle" => opened[p] # 0 /\ owner[opened[p]] = p
    /\ phase[p] = "open" => opened[p] # 0
    /\ phase[p] = "released" => ~leads[p] /\ opened[p] = 0
    /\ opened[p] # 0 => removed[opened[p]] # p

LockFileInv == LockFileTyped /\ RemovedIsGone /\ LeaderHoldsLock

LEMMA LockFileInit == LockFile!Init => LockFileInv
<1> USE PartsAssumption DEF LockFile!Init, LockFile!Files
<1>1. LockFile!Init => LockFileTyped
  BY DEF LockFileTyped
<1> QED BY <1>1 DEF LockFileInv, RemovedIsGone, LeaderHoldsLock

(* What a process that lets go of its file, or asks for another, leaves to  *)
(* the others.                                                              *)
LEMMA OthersKeepLocks ==
  ASSUME LockFileInv, NEW p \in Trio, owner' = LockFile!Dropped(p)
  PROVE  /\ owner' \in [LockFile!Files -> Trio \cup {NoEvent}]
         /\ \A q \in Trio \ {p} : \A f \in LockFile!Files : owner[f] = q => owner'[f] = q
BY PartsAssumption DEF LockFileInv, LockFileTyped, LockFile!Dropped

LEMMA OpenInv ==
  ASSUME LockFileInv, NEW p \in Trio, LockFile!Open(p)
  PROVE  LockFileInv'
<1> USE PartsAssumption DEF LockFile!Files
<1>1. /\ phase[p] = "idle" /\ phase' = [phase EXCEPT ![p] = "open"] /\ opened' = [opened EXCEPT ![p] = path']
      /\ owner' = LockFile!Dropped(p) /\ leads' = leads /\ removed' = removed
      /\ \/ path = 0 /\ files < MaxFiles /\ files' = files + 1 /\ path' = files + 1
         \/ path # 0 /\ path' = path /\ files' = files
  BY DEF LockFile!Open, LockFile!GoTo
<1>2. files' \in 0..MaxFiles /\ path' \in 1..files' /\ files <= files'
  BY <1>1 DEF LockFileInv, LockFileTyped
<1>3. /\ owner' \in [LockFile!Files -> Trio \cup {NoEvent}]
      /\ \A q \in Trio \ {p} : \A f \in LockFile!Files : owner[f] = q => owner'[f] = q
  BY <1>1, OthersKeepLocks
<1>4. LockFileTyped'
  <2>1. opened' \in [Trio -> 0..files'] /\ phase' \in [Trio -> {"idle", "open", "released"}]
    BY <1>1, <1>2 DEF LockFileInv, LockFileTyped
  <2> QED BY <1>1, <1>2, <1>3, <2>1 DEF LockFileInv, LockFileTyped
<1>5. RemovedIsGone'
  BY <1>1, <1>2 DEF LockFileInv, LockFileTyped, RemovedIsGone
<1>6. removed[path'] = NoEvent
  BY <1>1, <1>2 DEF LockFileInv, LockFileTyped, RemovedIsGone
<1>7. LeaderHoldsLock'
  <2> SUFFICES ASSUME NEW q \in Trio
               PROVE  /\ leads'[q] /\ phase'[q] = "idle" => opened'[q] # 0 /\ owner'[opened'[q]] = q
                      /\ phase'[q] = "open" => opened'[q] # 0
                      /\ phase'[q] = "released" => ~leads'[q] /\ opened'[q] = 0
                      /\ opened'[q] # 0 => removed'[opened'[q]] # q
    BY DEF LeaderHoldsLock
  <2>1. CASE q = p
    BY <2>1, <1>1, <1>2, <1>6 DEF LockFileInv, LockFileTyped
  <2>2. CASE q # p
    BY <2>2, <1>1, <1>3 DEF LockFileInv, LockFileTyped, LeaderHoldsLock
  <2> QED BY <2>1, <2>2
<1> QED BY <1>4, <1>5, <1>7 DEF LockFileInv

LEMMA LockInv ==
  ASSUME LockFileInv, NEW p \in Trio, LockFile!Lock(p)
  PROVE  LockFileInv'
<1> USE PartsAssumption DEF LockFile!Files
<1>1. /\ phase[p] = "open" /\ phase' = [phase EXCEPT ![p] = "idle"]
      /\ owner[opened[p]] = NoEvent /\ owner' = [owner EXCEPT ![opened[p]] = p]
      /\ leads' = [leads EXCEPT ![p] = TRUE] /\ UNCHANGED <<path, files, opened, removed>>
  BY DEF LockFile!Lock, LockFile!GoTo
<1>2. opened[p] \in LockFile!Files
  BY <1>1 DEF LockFileInv, LockFileTyped, LeaderHoldsLock
<1>3. LockFileTyped' /\ RemovedIsGone'
  BY <1>1, <1>2 DEF LockFileInv, LockFileTyped, RemovedIsGone
<1>4. LeaderHoldsLock'
  <2> SUFFICES ASSUME NEW q \in Trio
               PROVE  /\ leads'[q] /\ phase'[q] = "idle" => opened'[q] # 0 /\ owner'[opened'[q]] = q
                      /\ phase'[q] = "open" => opened'[q] # 0
                      /\ phase'[q] = "released" => ~leads'[q] /\ opened'[q] = 0
                      /\ opened'[q] # 0 => removed'[opened'[q]] # q
    BY DEF LeaderHoldsLock
  <2>1. CASE q = p
    BY <2>1, <1>1, <1>2 DEF LockFileInv, LockFileTyped, LeaderHoldsLock
  <2>2. CASE q # p
    BY <2>2, <1>1 DEF LockFileInv, LockFileTyped, LeaderHoldsLock
  <2> QED BY <2>1, <2>2
<1> QED BY <1>3, <1>4 DEF LockFileInv

(* try_acquire that fails, release() and the end of the process.            *)
LEMMA LetGoInv ==
  ASSUME LockFileInv, NEW p \in Trio, LockFile!Depose(p) \/ LockFile!Release(p)
  PROVE  LockFileInv'
<1> USE PartsAssumption DEF LockFile!Files
<1>1. /\ \E step \in {"idle", "released"} : phase' = [phase EXCEPT ![p] = step]
      /\ opened' = [opened EXCEPT ![p] = 0] /\ leads' = [leads EXCEPT ![p] = FALSE]
      /\ owner' = LockFile!Dropped(p) /\ UNCHANGED <<path, files, removed>>
  <2>1. CASE LockFile!Depose(p)
    BY <2>1 DEF LockFile!Depose, LockFile!GoTo
  <2>2. CASE LockFile!Release(p)
    <3>1. phase = [phase EXCEPT ![p] = "idle"]
      BY <2>2 DEF LockFile!Release, LockFileInv, LockFileTyped
    <3> QED BY <2>2, <3>1 DEF LockFile!Release
  <2> QED BY <2>1, <2>2
<1>2. /\ owner' \in [LockFile!Files -> Trio \cup {NoEvent}]
      /\ \A q \in Trio \ {p} : \A f \in LockFile!Files : owner[f] = q => owner'[f] = q
  BY <1>1, OthersKeepLocks
<1>3. LockFileTyped' /\ RemovedIsGone'
  BY <1>1, <1>2 DEF LockFileInv, LockFileTyped, RemovedIsGone
<1>4. LeaderHoldsLock'
  BY <1>1, <1>2 DEF LockFileInv, LockFileTyped, LeaderHoldsLock
<1> QED BY <1>3, <1>4 DEF LockFileInv

(* stop() removes the path, whoever has the file that is there.             *)
LEMMA RemoveInv ==
  ASSUME LockFileInv, NEW p \in Trio, LockFile!Remove(p)
  PROVE  LockFileInv'
<1> USE PartsAssumption DEF LockFile!Files
<1>1. /\ phase[p] = "released" /\ phase' = [phase EXCEPT ![p] = "idle"] /\ path' = 0
      /\ removed' = IF path = 0 THEN removed ELSE [removed EXCEPT ![path] = p]
      /\ UNCHANGED <<files, owner, opened, leads>>
  BY DEF LockFile!Remove, LockFile!GoTo
<1>2. opened[p] = 0 /\ ~leads[p]
  BY <1>1 DEF LockFileInv, LeaderHoldsLock
<1>3. LockFileTyped'
  BY <1>1 DEF LockFileInv, LockFileTyped
<1>4. RemovedIsGone'
  BY <1>1 DEF LockFileInv, LockFileTyped, RemovedIsGone
<1>5. LeaderHoldsLock'
  BY <1>1, <1>2 DEF LockFileInv, LockFileTyped, LeaderHoldsLock
<1> QED BY <1>3, <1>4, <1>5 DEF LockFileInv

LEMMA LockFileNext == LockFileInv /\ [LockFile!Next]_locking => LockFileInv'
<1> SUFFICES ASSUME LockFileInv, [LockFile!Next]_locking
             PROVE  LockFileInv'
  OBVIOUS
<1>1. CASE UNCHANGED locking
  BY <1>1 DEF locking, LockFileInv, LockFileTyped, RemovedIsGone, LeaderHoldsLock
<1>2. ASSUME NEW p \in Trio, LockFile!Open(p) PROVE LockFileInv'
  BY <1>2, OpenInv
<1>3. ASSUME NEW p \in Trio, LockFile!Lock(p) PROVE LockFileInv'
  BY <1>3, LockInv
<1>4. ASSUME NEW p \in Trio, LockFile!Depose(p) \/ LockFile!Release(p) PROVE LockFileInv'
  BY <1>4, LetGoInv
<1>5. ASSUME NEW p \in Trio, LockFile!Remove(p) PROVE LockFileInv'
  BY <1>5, RemoveInv
<1> QED BY <1>1, <1>2, <1>3, <1>4, <1>5 DEF LockFile!Next, LockFile!CannotOpen, LockFile!CannotLock, LockFile!Die

LEMMA LockFileSafe == LockFileInv => LockFile!OneLeaderPerFile
<1> SUFFICES ASSUME LockFileInv, NEW p \in Trio, NEW q \in Trio, p # q, leads[p], leads[q],
                    \A x \in {p, q} : phase[x] # "open",
                    \A x \in {p, q} : opened[x] # 0 => removed[opened[x]] \in {x, NoEvent}
             PROVE  FALSE
  BY DEF LockFile!OneLeaderPerFile
<1>1. \A x \in {p, q} : opened[x] # 0 /\ owner[opened[x]] = x /\ removed[opened[x]] = NoEvent
  BY DEF LockFileInv, LockFileTyped, LeaderHoldsLock
<1>2. \A x \in Trio : opened[x] # 0 /\ removed[opened[x]] = NoEvent => opened[x] = path
  <2> TAKE x \in Trio
  <2>1. opened[x] # 0 => opened[x] \in LockFile!Files /\ opened[x] <= files
    BY PartsAssumption DEF LockFileInv, LockFileTyped, LockFile!Files
  <2> QED BY <2>1 DEF LockFileInv, RemovedIsGone
<1>3. owner[path] = p
  BY <1>1, <1>2
<1>4. owner[path] = q
  BY <1>1, <1>2
<1> QED BY <1>3, <1>4

-----------------------------------------------------------------------------
(* The advisory lock.  The server grants it to one session at a time; a     *)
(* node that leads without it is between the two steps of a release, has    *)
(* applied a late answer, or does not know yet that its session is gone.    *)
AdvisoryTyped ==
  /\ held \in [Workers -> Nat]
  /\ {up, leader, stopping, heard, late} \subseteq [Workers -> BOOLEAN]
  /\ main \in [Workers -> {"idle", "joining", "unlocked"}]
  /\ beat \in [Workers -> [Pair -> {"none", "head"} \cup Advisory!Answers]]

AdvisoryInv ==
  /\ AdvisoryTyped
  /\ \A m, n \in Workers : m # n => held[m] = 0 \/ held[n] = 0
  /\ \A n \in Workers :
       /\ heard[n] => ~up[n]
       /\ leader[n] /\ held[n] = 0 => main[n] = "unlocked" \/ late[n] \/ (~up[n] /\ ~heard[n])

LEMMA AdvisoryInit == Advisory!Init => AdvisoryInv
<1> SUFFICES ASSUME Advisory!Init PROVE AdvisoryInv
  OBVIOUS
<1> USE DEF Advisory!Init
<1>1. held \in [Workers -> Nat] /\ {up, leader, stopping, heard, late} \subseteq [Workers -> BOOLEAN]
  OBVIOUS
<1>2. /\ main \in [Workers -> {"idle", "joining", "unlocked"}]
      /\ beat \in [Workers -> [Pair -> {"none", "head"} \cup Advisory!Answers]]
  OBVIOUS
<1>3. \A n \in Workers : held[n] = 0 /\ ~heard[n] /\ ~leader[n]
  OBVIOUS
<1> QED BY <1>1, <1>2, <1>3 DEF AdvisoryInv, AdvisoryTyped

(* A heartbeat asks: the lock is granted where nobody else has it.          *)
LEMMA AskInv ==
  ASSUME AdvisoryInv, NEW n \in Workers, NEW s \in Pair, Advisory!Ask(n, s)
  PROVE  AdvisoryInv'
<1>1. /\ UNCHANGED <<up, leader, stopping, main, heard, late>>
      /\ \E answer \in Advisory!Answers : beat' = [beat EXCEPT ![n][s] = answer]
      /\ held' = held \/ (Advisory!Free(n) /\ held' = [held EXCEPT ![n] = @ + 1])
  BY DEF Advisory!Ask, Advisory!Answers
<1>2. AdvisoryTyped'
  <2>1. beat' \in [Workers -> [Pair -> {"none", "head"} \cup Advisory!Answers]]
    BY <1>1 DEF AdvisoryInv, AdvisoryTyped
  <2>2. held' \in [Workers -> Nat]
    BY <1>1 DEF AdvisoryInv, AdvisoryTyped
  <2> QED BY <1>1, <2>1, <2>2 DEF AdvisoryInv, AdvisoryTyped
<1>3. \A m \in Workers : held'[m] = 0 => held[m] = 0
  BY <1>1 DEF AdvisoryInv, AdvisoryTyped
<1>4. \A m, k \in Workers : m # k => held'[m] = 0 \/ held'[k] = 0
  BY <1>1 DEF AdvisoryInv, AdvisoryTyped, Advisory!Free
<1> QED BY <1>1, <1>2, <1>3, <1>4 DEF AdvisoryInv

(* The answer is applied.                                                   *)
LEMMA ApplyInv ==
  ASSUME AdvisoryInv, NEW n \in Workers, NEW s \in Pair, Advisory!Apply(n, s)
  PROVE  AdvisoryInv'
<1>1. /\ beat[n][s] \in Advisory!Answers /\ beat' = [beat EXCEPT ![n][s] = "head"]
      /\ UNCHANGED <<held, up, stopping, main>>
  BY DEF Advisory!Apply
<1>2. /\ leader' = [leader EXCEPT ![n] = (beat[n][s] = "yes")]
      /\ heard' = [heard EXCEPT ![n] = @ \/ (beat[n][s] = "error" /\ ~up[n])]
  BY DEF Advisory!Apply, Advisory!Verdict
<1>3. \E b \in BOOLEAN : /\ late' = [late EXCEPT ![n] = b]
                         /\ beat[n][s] = "yes" /\ held[n] = 0 => b
  <2>1. CASE beat[n][s] = "yes"
    <3>1. late' = [late EXCEPT ![n] = held[n] = 0 \/ late[n]]
      BY <2>1 DEF Advisory!Apply
    <3> QED BY <3>1 DEF AdvisoryInv, AdvisoryTyped
  <2>2. CASE beat[n][s] # "yes"
    BY <2>2 DEF Advisory!Apply
  <2> QED BY <2>1, <2>2
<1>4. AdvisoryTyped'
  <2>1. beat' \in [Workers -> [Pair -> {"none", "head"} \cup Advisory!Answers]]
    BY <1>1 DEF AdvisoryInv, AdvisoryTyped
  <2>2. {leader', heard', late'} \subseteq [Workers -> BOOLEAN]
    BY <1>2, <1>3 DEF AdvisoryInv, AdvisoryTyped
  <2> QED BY <1>1, <2>1, <2>2 DEF AdvisoryInv, AdvisoryTyped
<1>5. \A m \in Workers :
        /\ heard'[m] => ~up'[m]
        /\ leader'[m] /\ held'[m] = 0 => main'[m] = "unlocked" \/ late'[m] \/ (~up'[m] /\ ~heard'[m])
  <2> TAKE m \in Workers
  <2>1. CASE m = n
    BY <2>1, <1>1, <1>2, <1>3 DEF AdvisoryInv, AdvisoryTyped
  <2>2. CASE m # n
    BY <2>2, <1>1, <1>2, <1>3 DEF AdvisoryInv, AdvisoryTyped
  <2> QED BY <2>1, <2>2
<1> QED BY <1>1, <1>4, <1>5 DEF AdvisoryInv

(* start(), stop() and the end of a heartbeat thread.                       *)
LEMMA StartStopInv ==
  ASSUME AdvisoryInv, NEW n \in Workers,
         \/ Advisory!Start(n) \/ Advisory!BeginStop(n) \/ Advisory!Unlock(n) \/ Advisory!LetGo(n)
         \/ \E s \in Pair : Advisory!EndBeat(n, s)
  PROVE  AdvisoryInv'
<1> USE DEF AdvisoryInv, AdvisoryTyped
<1>1. CASE Advisory!Start(n) \/ \E s \in Pair : Advisory!EndBeat(n, s)
  <2>1. /\ UNCHANGED <<held, up, leader, main, heard, late>>
        /\ stopping' = stopping \/ stopping' = [stopping EXCEPT ![n] = FALSE]
        /\ \E s \in Pair, b \in {"head", "none"} : beat' = [beat EXCEPT ![n][s] = b]
    BY <1>1 DEF Advisory!Start, Advisory!EndBeat
  <2>2. beat' \in [Workers -> [Pair -> {"none", "head"} \cup Advisory!Answers]]
    BY <2>1
  <2>3. UNCHANGED <<held, up, leader, main, heard, late>> /\ stopping' \in [Workers -> BOOLEAN]
    BY <2>1
  <2>4. AdvisoryTyped'
    BY <2>2, <2>3
  <2> QED BY <2>3, <2>4
<1>2. CASE Advisory!BeginStop(n)
  <2>1. /\ main[n] = "idle" /\ main' = [main EXCEPT ![n] = "joining"]
        /\ stopping' = [stopping EXCEPT ![n] = TRUE] /\ UNCHANGED <<held, up, leader, beat, heard, late>>
    BY <1>2 DEF Advisory!BeginStop
  <2>2. AdvisoryTyped'
    BY <2>1
  <2> QED BY <2>1, <2>2
<1>3. CASE Advisory!Unlock(n)
  <2>1. /\ UNCHANGED <<up, leader, stopping, beat, heard, late>>
        /\ main' = [main EXCEPT ![n] = "unlocked"]
        /\ \E k \in 0..held[n] : held' = [held EXCEPT ![n] = k]
    BY <1>3 DEF Advisory!Unlock
  <2>2. AdvisoryTyped'
    BY <2>1
  <2>0. \A m \in Workers : held[m] = 0 => held'[m] = 0
    BY <2>1
  <2>3. \A m, k \in Workers : m # k => held'[m] = 0 \/ held'[k] = 0
    BY <2>0
  <2>4. \A m \in Workers : m # n => held'[m] = held[m] /\ main'[m] = main[m]
    BY <2>1
  <2>5. \A m \in Workers :
          leader'[m] /\ held'[m] = 0 => main'[m] = "unlocked" \/ late'[m] \/ (~up'[m] /\ ~heard'[m])
    BY <2>1, <2>4
  <2> QED BY <2>1, <2>2, <2>3, <2>5
<1>4. CASE Advisory!LetGo(n)
  <2>1. /\ UNCHANGED <<held, up, stopping, beat, heard>>
        /\ main' = [main EXCEPT ![n] = "idle"]
        /\ leader' = [leader EXCEPT ![n] = FALSE] /\ late' = [late EXCEPT ![n] = FALSE]
    BY <1>4 DEF Advisory!LetGo
  <2>2. AdvisoryTyped'
    BY <2>1
  <2>3. \A m \in Workers :
          /\ heard'[m] => ~up'[m]
          /\ leader'[m] /\ held'[m] = 0 => main'[m] = "unlocked" \/ late'[m] \/ (~up'[m] /\ ~heard'[m])
    BY <2>1
  <2> QED BY <2>1, <2>2, <2>3
<1> QED BY <1>1, <1>2, <1>3, <1>4

(* A session ends, or the process does.                                     *)
LEMMA LoseInv ==
  ASSUME AdvisoryInv, NEW n \in Workers, Advisory!LoseSession(n) \/ Advisory!Restart(n)
  PROVE  AdvisoryInv'
<1> USE DEF AdvisoryInv, AdvisoryTyped
<1>1. CASE Advisory!LoseSession(n)
  BY <1>1 DEF Advisory!LoseSession
<1>2. CASE Advisory!Restart(n)
  <2>1. beat' \in [Workers -> [Pair -> {"none", "head"} \cup Advisory!Answers]]
    BY <1>2 DEF Advisory!Restart
  <2>2. /\ held' \in [Workers -> Nat] /\ main' \in [Workers -> {"idle", "joining", "unlocked"}]
        /\ {up', leader', stopping', heard', late'} \subseteq [Workers -> BOOLEAN]
    BY <1>2 DEF Advisory!Restart
  <2>3. /\ held' = [held EXCEPT ![n] = 0] /\ leader' = [leader EXCEPT ![n] = FALSE]
        /\ up' = [up EXCEPT ![n] = TRUE] /\ heard' = [heard EXCEPT ![n] = FALSE]
        /\ \A m \in Workers \ {n} : main'[m] = main[m] /\ late'[m] = late[m]
    BY <1>2 DEF Advisory!Restart
  <2>4. \A m \in Workers :
          /\ heard'[m] => ~up'[m]
          /\ leader'[m] /\ held'[m] = 0 => main'[m] = "unlocked" \/ late'[m] \/ (~up'[m] /\ ~heard'[m])
    BY <2>3
  <2>5. \A m, k \in Workers : m # k => held'[m] = 0 \/ held'[k] = 0
    BY <2>3
  <2> QED BY <2>1, <2>2, <2>4, <2>5
<1> QED BY <1>1, <1>2

LEMMA AdvisoryNext == AdvisoryInv /\ [Advisory!Next]_elected => AdvisoryInv'
<1> SUFFICES ASSUME AdvisoryInv, [Advisory!Next]_elected
             PROVE  AdvisoryInv'
  OBVIOUS
<1>1. CASE UNCHANGED elected
  BY <1>1 DEF elected, AdvisoryInv, AdvisoryTyped
<1>2. ASSUME NEW n \in Workers, NEW s \in Pair, Advisory!Ask(n, s) \/ Advisory!Apply(n, s)
      PROVE  AdvisoryInv'
  BY <1>2, AskInv, ApplyInv
<1> QED BY <1>1, <1>2, StartStopInv, LoseInv DEF Advisory!Next

LEMMA AdvisorySafe == AdvisoryInv => Advisory!OneLeaderOrExcused
BY DEF AdvisoryInv, Advisory!OneLeaderOrExcused

-----------------------------------------------------------------------------
(* The pool of connections.  A connection that a pool has made is known by  *)
(* its number, so that two hands are two numbers.  No number is twice in    *)
(* the lists, nor in a list and in a hand, nor in two hands; what is open   *)
(* in a hand is counted in the set of its pool, which is what acquire looks *)
(* at before it makes one more.                                             *)
Inside(t) == user[t].at = "inside"

PoolTyped ==
  /\ pools \in 0..MaxPools /\ current \in 0..pools /\ made \in Nat
  /\ idle \in [Pool!Pools -> Seq(Nat)]
  /\ inUse \in [Pool!Pools -> SUBSET (1..made)] /\ shut \in [Pool!Pools -> BOOLEAN]
  /\ open \subseteq 1..made /\ answers \subseteq 1..made
  /\ user \in [Trio -> [at : {"outside", "entered", "passed", "inside"}, pool : 0..pools, conn : Nat]]

Numbered ==
  /\ \A p \in Pool!Pools : \A i \in 1..Len(idle[p]) : idle[p][i] \in 1..made
  /\ \A t \in Trio : user[t].at # "outside" => user[t].pool # 0
  /\ \A t \in Trio : Inside(t) => user[t].conn \in 1..made

Apart ==
  /\ \A t, u \in Trio : t # u /\ Inside(t) /\ Inside(u) => user[t].conn # user[u].conn
  /\ \A t \in Trio, p \in Pool!Pools : \A i \in 1..Len(idle[p]) : Inside(t) => idle[p][i] # user[t].conn
  /\ \A p, q \in Pool!Pools : \A i \in 1..Len(idle[p]), j \in 1..Len(idle[q]) :
       idle[p][i] = idle[q][j] => p = q /\ i = j

Counted ==
  /\ \A t \in Trio : Inside(t) /\ user[t].conn \in open => user[t].conn \in inUse[user[t].pool]
  /\ \A p \in Pool!Pools : shut[p] => idle[p] = <<>>
  /\ \A p \in Pool!Pools : p > pools => ~shut[p] /\ idle[p] = <<>>

(* Connection c is in a hand of pool p, or in its list.                     *)
At(c, p) ==
  \/ \E t \in Trio : Inside(t) /\ user[t].pool = p /\ user[t].conn = c
  \/ \E i \in 1..Len(idle[p]) : idle[p][i] = c

Busy(p) == {c \in open : At(c, p)}

Limited ==
  /\ \A p \in Pool!Pools : Cardinality(Busy(p)) <= MaxConnections
  /\ \A c \in open : \E p \in Pool!Pools : At(c, p)

PoolInv == PoolTyped /\ Numbered /\ Apart /\ Counted /\ Limited

LEMMA SameCount ==
  ASSUME NEW S
  PROVE  Pool!Cardinality(S) = Cardinality(S)
BY DEF Cardinality, Pool!Cardinality

LEMMA PoolInit == Pool!Init => PoolInv
<1> SUFFICES ASSUME Pool!Init PROVE PoolInv
  OBVIOUS
<1> USE PartsAssumption DEF Pool!Init, Pool!Pools, Pool!Outside
<1>1. PoolTyped
  BY DEF PoolTyped
<1>2. \A p \in Pool!Pools : Len(idle[p]) = 0
  OBVIOUS
<1>3. Numbered /\ Apart /\ Counted
  BY <1>2 DEF Numbered, Apart, Counted, Inside
<1>4. Limited
  <2>1. \A p \in Pool!Pools : Busy(p) = {}
    BY DEF Busy
  <2>2. open = {} /\ Cardinality({}) <= MaxConnections
    BY FS_EmptySet
  <2> QED BY <2>1, <2>2 DEF Limited
<1> QED BY <1>1, <1>3, <1>4 DEF PoolInv

LEMMA FewerCounted ==
  ASSUME NEW n \in Nat, NEW S \in SUBSET (1..n), NEW T \in SUBSET S
  PROVE  Cardinality(S) \in Nat /\ Cardinality(T) \in Nat /\ Cardinality(T) <= Cardinality(S)
<1>1. IsFiniteSet(S) /\ IsFiniteSet(T)
  <2>1. IsFiniteSet(1..n)
    BY FS_Interval
  <2>2. IsFiniteSet(S)
    BY <2>1, FS_Subset
  <2> QED BY <2>2, FS_Subset
<1> QED BY <1>1, FS_Subset, FS_CardinalityType

(* A step that brings no connection to a pool leaves the limit as it was.   *)
LEMMA NoneAdded ==
  ASSUME PoolInv, NEW p \in Pool!Pools,
         \A c \in open' : At(c, p)' => c \in open /\ At(c, p)
  PROVE  Cardinality(Busy(p)') <= MaxConnections
<1>1. Busy(p)' \subseteq Busy(p)
  BY DEF Busy
<1>2. Busy(p) \subseteq 1..made /\ made \in Nat
  BY DEF Busy, PoolInv, PoolTyped
<1>3. Cardinality(Busy(p)) <= MaxConnections /\ MaxConnections \in Nat
  BY PartsAssumption DEF PoolInv, Limited
<1>4. /\ Cardinality(Busy(p)) \in Nat /\ Cardinality(Busy(p)') \in Nat
      /\ Cardinality(Busy(p)') <= Cardinality(Busy(p))
  BY <1>1, <1>2, FewerCounted
<1> QED BY <1>3, <1>4

(* A thread goes to a place, with a pool and a connection.                  *)
LEMMA UserMoves ==
  ASSUME PoolInv, NEW t \in Trio, NEW place \in {"outside", "entered", "passed", "inside"},
         NEW p \in Nat, NEW c \in Nat, pools' \in Nat, p <= pools', pools <= pools',
         user' = [user EXCEPT ![t] = [at |-> place, pool |-> p, conn |-> c]]
  PROVE  /\ user' \in [Trio -> [at : {"outside", "entered", "passed", "inside"}, pool : 0..pools', conn : Nat]]
         /\ user'[t].at = place /\ user'[t].pool = p /\ user'[t].conn = c
         /\ \A u \in Trio \ {t} : user'[u] = user[u]
<1>1. user' \in [Trio -> [at : {"outside", "entered", "passed", "inside"}, pool : 0..pools', conn : Nat]]
  <2>1. [at : {"outside", "entered", "passed", "inside"}, pool : 0..pools, conn : Nat]
          \subseteq [at : {"outside", "entered", "passed", "inside"}, pool : 0..pools', conn : Nat]
    BY DEF PoolInv, PoolTyped
  <2>2. [at |-> place, pool |-> p, conn |-> c]
          \in [at : {"outside", "entered", "passed", "inside"}, pool : 0..pools', conn : Nat]
    OBVIOUS
  <2>3. user \in [Trio -> [at : {"outside", "entered", "passed", "inside"}, pool : 0..pools', conn : Nat]]
    BY <2>1 DEF PoolInv, PoolTyped
  <2> QED BY <2>2, <2>3
<1>2. user'[t] = [at |-> place, pool |-> p, conn |-> c] /\ \A u \in Trio \ {t} : user'[u] = user[u]
  BY DEF PoolInv, PoolTyped
<1> QED BY <1>1, <1>2

LEMMA PoolOfUser ==
  ASSUME PoolInv, NEW t \in Trio, user[t].at # "outside"
  PROVE  user[t].pool \in Pool!Pools /\ user[t].pool <= pools
<1>1. user[t].pool \in 0..pools /\ user[t].pool # 0 /\ pools \in 0..MaxPools
  BY DEF PoolInv, PoolTyped, Numbered
<1>2. MaxPools \in Nat
  BY PartsAssumption
<1> QED BY <1>1, <1>2 DEF Pool!Pools

(* pooled_connection finds a pool; acquire looks at _closed.                *)
LEMMA LookMove ==
  ASSUME PoolInv, NEW t \in Trio, user[t].at \in {"outside", "entered"},
         UNCHANGED <<current, pools, idle, inUse, shut, made, open, answers>>,
         NEW place \in {"outside", "entered", "passed"}, NEW p \in 0..pools, NEW c \in Nat,
         place # "outside" => p # 0,
         user' = [user EXCEPT ![t] = [at |-> place, pool |-> p, conn |-> c]]
  PROVE  PoolInv'
<1> USE DEF Inside
<1>1. /\ user' \in [Trio -> [at : {"outside", "entered", "passed", "inside"}, pool : 0..pools', conn : Nat]]
      /\ user'[t].at = place /\ user'[t].pool = p
      /\ \A u \in Trio \ {t} : user'[u] = user[u]
  <2>1. p \in Nat /\ p <= pools' /\ pools' \in Nat /\ pools <= pools'
    BY DEF PoolInv, PoolTyped
  <2> QED BY <2>1, UserMoves
<1>2. PoolTyped' /\ ~Inside(t) /\ ~Inside(t)'
  BY <1>1 DEF PoolInv, PoolTyped
<1>3. \A u \in Trio : Inside(u)' => Inside(u) /\ user'[u] = user[u]
  BY <1>1, <1>2
<1>4. Numbered'
  BY <1>1, <1>3 DEF PoolInv, Numbered, Pool!Pools
<1>5. Apart'
  BY <1>3 DEF PoolInv, Apart, Pool!Pools
<1>6. Counted'
  BY <1>3 DEF PoolInv, Counted, Pool!Pools
<1>7. Limited'
  <2>1. \A d \in open, q \in Pool!Pools : At(d, q)' <=> At(d, q)
    BY <1>1, <1>2 DEF At
  <2>2. \A q \in Pool!Pools : Cardinality(Busy(q)') <= MaxConnections
    BY <2>1, NoneAdded
  <2> QED BY <2>1, <2>2 DEF PoolInv, Limited, Pool!Pools
<1> QED BY <1>2, <1>4, <1>5, <1>6, <1>7 DEF PoolInv

LEMMA LookInv ==
  ASSUME PoolInv, NEW t \in Trio,
         \/ Pool!SeeClosed(t)
         \/ Pool!Enter(t) /\ current # 0
  PROVE  PoolInv'
<1>1. /\ UNCHANGED <<current, pools, idle, inUse, shut, made, open, answers>>
      /\ user[t].at \in {"outside", "entered"}
  BY DEF Pool!SeeClosed, Pool!Enter
<1>2. pools \in Nat /\ 0 \in 0..pools /\ current \in 0..pools
  BY DEF PoolInv, PoolTyped
<1>3. CASE Pool!SeeClosed(t) /\ shut[user[t].pool]
  <2>1. user' = [user EXCEPT ![t] = [at |-> "outside", pool |-> 0, conn |-> 0]]
    BY <1>3 DEF Pool!SeeClosed, Pool!Outside
  <2> QED BY <1>1, <1>2, <2>1, LookMove
<1>4. CASE Pool!SeeClosed(t) /\ ~shut[user[t].pool]
  <2>1. user[t].at = "entered" /\ user' = [user EXCEPT ![t].at = "passed"]
    BY <1>4 DEF Pool!SeeClosed
  <2>2. user[t].pool \in 0..pools /\ user[t].pool # 0 /\ user[t].conn \in Nat
    BY <2>1 DEF PoolInv, PoolTyped, Numbered
  <2>3. user' = [user EXCEPT ![t] = [at |-> "passed", pool |-> user[t].pool, conn |-> user[t].conn]]
    <3>1. user[t] \in [at : {"outside", "entered", "passed", "inside"}, pool : 0..pools, conn : Nat]
      BY DEF PoolInv, PoolTyped
    <3>2. [user[t] EXCEPT !.at = "passed"] = [at |-> "passed", pool |-> user[t].pool, conn |-> user[t].conn]
      BY <3>1
    <3>3. user' = [user EXCEPT ![t] = [user[t] EXCEPT !.at = "passed"]]
      BY <2>1
    <3> QED BY <3>2, <3>3
  <2> QED BY <1>1, <2>2, <2>3, LookMove
<1>5. CASE Pool!Enter(t) /\ current # 0
  <2>1. user' = [user EXCEPT ![t] = [at |-> "entered", pool |-> current, conn |-> 0]]
    BY <1>5 DEF Pool!Enter, Pool!Move
  <2> QED BY <1>1, <1>2, <1>5, <2>1, LookMove
<1> QED BY <1>3, <1>4, <1>5

(* pooled_connection makes the pool, with its first connections.            *)
LEMMA NewPoolInv ==
  ASSUME PoolInv, NEW t \in Trio, Pool!Enter(t), current = 0
  PROVE  PoolInv'
<1> PICK n \in Nat : n = pools + 1
  BY DEF PoolInv, PoolTyped
<1> DEFINE first == [i \in 1..MinConnections |-> made + i]
<1>0. MinConnections \in Nat /\ MinConnections <= MaxConnections /\ MaxConnections \in Nat /\ MaxPools \in Nat
  BY PartsAssumption
<1>1. /\ user[t].at = "outside" /\ pools < MaxPools
      /\ pools' = n /\ current' = n /\ made' = made + MinConnections
      /\ idle' = [idle EXCEPT ![n] = first]
      /\ open' = open \cup (made + 1)..made' /\ answers' = answers \cup (made + 1)..made'
      /\ user' = [user EXCEPT ![t] = [at |-> "entered", pool |-> n, conn |-> 0]]
      /\ UNCHANGED <<inUse, shut>>
  BY DEF Pool!Enter, Pool!Move
<1>2. /\ n \in Pool!Pools /\ n \in Nat /\ pools \in Nat /\ made \in Nat /\ made' \in Nat /\ made <= made'
      /\ open \subseteq 1..made /\ answers \subseteq 1..made /\ n = pools + 1
  BY <1>0, <1>1 DEF PoolInv, PoolTyped, Pool!Pools
<1>3. first \in Seq(Nat) /\ Len(first) = MinConnections /\ \A i \in 1..MinConnections : first[i] = made + i
  <2>1. MinConnections \in Nat
    BY <1>0
  <2>2. \A i \in 1..MinConnections : made + i \in Nat
    BY <1>2
  <2>3. first \in [1..MinConnections -> Nat]
    BY <2>2
  <2> QED BY <2>1, <2>3, LenProperties
<1>4. /\ idle' \in [Pool!Pools -> Seq(Nat)]
      /\ Len(idle'[n]) = MinConnections /\ \A i \in 1..MinConnections : idle'[n][i] = made + i
      /\ \A p \in Pool!Pools \ {n} : idle'[p] = idle[p]
  <2> HIDE DEF first
  <2>1. idle \in [Pool!Pools -> Seq(Nat)]
    BY DEF PoolInv, PoolTyped
  <2>2. idle'[n] = first
    BY <1>1, <1>2, <2>1
  <2> QED BY <1>1, <1>2, <1>3, <2>1, <2>2
<1>5. /\ user' \in [Trio -> [at : {"outside", "entered", "passed", "inside"}, pool : 0..pools', conn : Nat]]
      /\ user'[t].at = "entered" /\ user'[t].pool = n
      /\ \A u \in Trio \ {t} : user'[u] = user[u]
  <2>1. n <= pools' /\ pools' \in Nat /\ pools <= pools'
    BY <1>1, <1>2
  <2> QED BY <1>1, <1>2, <2>1, UserMoves
<1> HIDE DEF first
<1>a. \A u \in Trio : user[u].pool \in 0..pools /\ (Inside(u) => user[u].conn \in 1..made)
  BY DEF PoolInv, PoolTyped, Numbered
<1>6. \A u \in Trio : Inside(u)' => Inside(u) /\ user'[u] = user[u] /\ user[u].pool # n /\ user[u].conn <= made
  <2> SUFFICES ASSUME NEW u \in Trio, Inside(u)'
               PROVE  Inside(u) /\ user'[u] = user[u] /\ user[u].pool # n /\ user[u].conn <= made
    OBVIOUS
  <2>1. u # t /\ user'[u] = user[u] /\ Inside(u)
    BY <1>5 DEF Inside
  <2> QED BY <1>2, <1>a, <2>1
<1>7. \A p \in Pool!Pools \ {n} : \A i \in 1..Len(idle[p]) : idle[p][i] \in 1..made
  BY DEF PoolInv, Numbered
<1>b. \A i \in 1..Len(idle'[n]) : idle'[n][i] > made /\ idle'[n][i] \in Nat
  <2> TAKE i \in 1..Len(idle'[n])
  <2>1. i \in 1..MinConnections /\ idle'[n][i] = made + i
    BY <1>4
  <2> QED BY <2>1, <1>0, <1>2
<1>c. \A p \in Pool!Pools \ {n} : \A i \in 1..Len(idle'[p]) : idle'[p][i] <= made /\ idle'[p][i] \in Nat
  <2> TAKE p \in Pool!Pools \ {n}
  <2>1. idle'[p] = idle[p]
    BY <1>4
  <2>2. \A i \in 1..Len(idle[p]) : idle[p][i] \in 1..made
    BY <1>7
  <2> QED BY <2>1, <2>2, <1>2
<1>8. PoolTyped'
  <2>1. inUse' \in [Pool!Pools -> SUBSET (1..made')]
    <3>1. \A p \in Pool!Pools : inUse[p] \subseteq 1..made
      BY DEF PoolInv, PoolTyped
    <3>2. \A p \in Pool!Pools : inUse[p] \subseteq 1..made'
      <4>1. 1..made \subseteq 1..made'
        BY <1>2
      <4> QED BY <3>1, <4>1
    <3>3. inUse \in [Pool!Pools -> SUBSET (1..made)]
      BY DEF PoolInv, PoolTyped
    <3> QED BY <1>1, <3>2, <3>3
  <2>2. open' \subseteq 1..made' /\ answers' \subseteq 1..made'
    BY <1>0, <1>1, <1>2
  <2>3. pools' \in 0..MaxPools /\ current' \in 0..pools'
    BY <1>0, <1>1, <1>2
  <2>4. shut' \in [Pool!Pools -> BOOLEAN]
    BY <1>1 DEF PoolInv, PoolTyped
  <2> QED BY <1>2, <1>4, <1>5, <2>1, <2>2, <2>3, <2>4 DEF PoolTyped
<1>9. Numbered'
  <2>1. \A p \in Pool!Pools : \A i \in 1..Len(idle'[p]) : idle'[p][i] \in 1..made'
    <3> TAKE p \in Pool!Pools
    <3>1. CASE p = n
      BY <3>1, <1>0, <1>1, <1>2, <1>4
    <3>2. CASE p # n
      BY <3>2, <1>2, <1>4, <1>7
    <3> QED BY <3>1, <3>2
  <2>2. \A u \in Trio : user'[u].at # "outside" => user'[u].pool # 0
    <3>1. \A u \in Trio : user[u].at # "outside" => user[u].pool # 0
      BY DEF PoolInv, Numbered
    <3> QED BY <3>1, <1>2, <1>5
  <2>3. \A u \in Trio : Inside(u)' => user'[u].conn \in 1..made'
    BY <1>2, <1>6, <1>a
  <2> QED BY <2>1, <2>2, <2>3 DEF Numbered
<1>10. Apart'
  <2>1. \A u, v \in Trio : u # v /\ Inside(u)' /\ Inside(v)' => user'[u].conn # user'[v].conn
    BY <1>6 DEF PoolInv, Apart
  <2>2. \A u \in Trio, p \in Pool!Pools : \A i \in 1..Len(idle'[p]) : Inside(u)' => idle'[p][i] # user'[u].conn
    <3> TAKE u \in Trio, p \in Pool!Pools
    <3>1. CASE p = n
      BY <3>1, <1>2, <1>6, <1>a, <1>b
    <3>2. CASE p # n
      <4>1. \A i \in 1..Len(idle[p]) : Inside(u) => idle[p][i] # user[u].conn
        BY DEF PoolInv, Apart
      <4> QED BY <3>2, <4>1, <1>4, <1>6
    <3> QED BY <3>1, <3>2
  <2>3. \A p, q \in Pool!Pools : \A i \in 1..Len(idle'[p]), j \in 1..Len(idle'[q]) :
          idle'[p][i] = idle'[q][j] => p = q /\ i = j
    <3> SUFFICES ASSUME NEW p \in Pool!Pools, NEW q \in Pool!Pools,
                        NEW i \in 1..Len(idle'[p]), NEW j \in 1..Len(idle'[q]), idle'[p][i] = idle'[q][j]
                 PROVE  p = q /\ i = j
      OBVIOUS
    <3>1. CASE p = n /\ q = n
      BY <3>1, <1>0, <1>2, <1>4
    <3>2. CASE p # n /\ q # n
      <4>1. i \in 1..Len(idle[p]) /\ j \in 1..Len(idle[q]) /\ idle[p][i] = idle[q][j]
        BY <3>2, <1>4
      <4> QED BY <4>1 DEF PoolInv, Apart
    <3>3. CASE p = n /\ q # n
      <4>1. idle'[p][i] > made /\ idle'[p][i] \in Nat
        BY <3>3, <1>b
      <4>2. idle'[q][j] <= made /\ idle'[q][j] \in Nat
        BY <3>3, <1>c
      <4> QED BY <4>1, <4>2, <1>2
    <3>4. CASE p # n /\ q = n
      <4>1. idle'[p][i] <= made /\ idle'[p][i] \in Nat
        BY <3>4, <1>c
      <4>2. idle'[q][j] > made /\ idle'[q][j] \in Nat
        BY <3>4, <1>b
      <4> QED BY <4>1, <4>2, <1>2
    <3> QED BY <3>1, <3>2, <3>3, <3>4
  <2> QED BY <2>1, <2>2, <2>3 DEF Apart
<1>11. Counted'
  <2>1. \A u \in Trio : Inside(u)' /\ user'[u].conn \in open' => user'[u].conn \in inUse'[user'[u].pool]
    <3>1. \A u \in Trio : Inside(u) /\ user[u].conn \in open => user[u].conn \in inUse[user[u].pool]
      BY DEF PoolInv, Counted
    <3>2. \A c \in open' : c <= made => c \in open
      BY <1>1, <1>2
    <3> QED BY <1>1, <1>6, <3>1, <3>2
  <2>2. \A p \in Pool!Pools : (shut'[p] => idle'[p] = <<>>) /\ (p > pools' => ~shut'[p] /\ idle'[p] = <<>>)
    <3> TAKE p \in Pool!Pools
    <3>1. (shut[p] => idle[p] = <<>>) /\ (p > pools => ~shut[p] /\ idle[p] = <<>>)
      BY DEF PoolInv, Counted
    <3>2. p \in Nat
      BY <1>0 DEF Pool!Pools
    <3>3. CASE p = n
      BY <1>1, <1>2, <3>1, <3>3
    <3>4. CASE p # n
      BY <1>1, <1>2, <1>4, <3>1, <3>2, <3>4
    <3> QED BY <3>3, <3>4
  <2> QED BY <2>1, <2>2 DEF Counted
<1>12. Limited'
  <2>1. \A p \in Pool!Pools \ {n} : \A c \in open' : At(c, p)' => c \in open /\ At(c, p)
    <3> SUFFICES ASSUME NEW p \in Pool!Pools \ {n}, NEW c \in open', At(c, p)'
                 PROVE  c \in open /\ At(c, p)
      OBVIOUS
    <3>1. At(c, p)
      BY <1>4, <1>6 DEF At
    <3>2. c \in 1..made
      BY <3>1, <1>7, <1>a DEF At
    <3> QED BY <3>1, <3>2, <1>1, <1>2
  <2>2. Busy(n)' \subseteq (made + 1)..made'
    <3>1. \A c : At(c, n)' => \E i \in 1..MinConnections : c = made + i
      BY <1>4, <1>6 DEF At
    <3> QED BY <1>0, <1>1, <1>2, <3>1 DEF Busy
  <2>3. Cardinality(Busy(n)') <= MaxConnections
    <3>1. IsFiniteSet((made + 1)..made') /\ Cardinality((made + 1)..made') = MinConnections
      BY <1>0, <1>1, <1>2, FS_Interval
    <3>2. Cardinality(Busy(n)') <= MinConnections /\ Cardinality(Busy(n)') \in Nat
      BY <2>2, <3>1, FS_Subset, FS_CardinalityType
    <3> QED BY <3>2, <1>0
  <2>4. \A p \in Pool!Pools : Cardinality(Busy(p)') <= MaxConnections
    <3> TAKE p \in Pool!Pools
    <3>1. CASE p = n
      BY <2>3, <3>1
    <3>2. CASE p # n
      BY <2>1, <3>2, NoneAdded
    <3> QED BY <3>1, <3>2
  <2>5. \A c \in open : \E p \in Pool!Pools : At(c, p)'
    <3> SUFFICES ASSUME NEW c \in open, NEW p \in Pool!Pools, At(c, p)
                 PROVE  At(c, p)'
      BY DEF PoolInv, Limited
    <3>1. \A u \in Trio : Inside(u) => Inside(u)' /\ user'[u] = user[u]
      BY <1>1, <1>5 DEF Inside
    <3>2. p = n => Len(idle[p]) = 0
      <4>1. n > pools => idle[n] = <<>>
        BY <1>2 DEF PoolInv, Counted
      <4> QED BY <4>1, <1>2
    <3>3. CASE \E u \in Trio : Inside(u) /\ user[u].pool = p /\ user[u].conn = c
      BY <3>1, <3>3 DEF At
    <3>4. CASE \E i \in 1..Len(idle[p]) : idle[p][i] = c
      <4>1. p # n
        BY <3>2, <3>4
      <4> QED BY <3>4, <4>1, <1>4 DEF At
    <3> QED BY <3>3, <3>4 DEF At
  <2>6. \A c \in (made + 1)..made' : At(c, n)'
    <3> TAKE c \in (made + 1)..made'
    <3>1. c - made \in 1..MinConnections /\ made + (c - made) = c
      BY <1>0, <1>1, <1>2
    <3> QED BY <3>1, <1>4 DEF At
  <2>7. \A c \in open' : \E p \in Pool!Pools : At(c, p)'
    BY <1>1, <1>2, <2>5, <2>6
  <2> QED BY <2>4, <2>7 DEF Limited, Pool!Pools
<1> QED BY <1>8, <1>9, <1>10, <1>11, <1>12 DEF PoolInv

(* What the other steps leave in the lists was there before.                *)
NoNewEntry ==
  \A q \in Pool!Pools : \A j \in 1..Len(idle'[q]) : j \in 1..Len(idle[q]) /\ idle'[q][j] = idle[q][j]

LEMMA EntriesApart ==
  ASSUME PoolInv, NoNewEntry
  PROVE  \A p, q \in Pool!Pools : \A i \in 1..Len(idle'[p]), j \in 1..Len(idle'[q]) :
           idle'[p][i] = idle'[q][j] => p = q /\ i = j
<1> SUFFICES ASSUME NEW p \in Pool!Pools, NEW q \in Pool!Pools,
                    NEW i \in 1..Len(idle'[p]), NEW j \in 1..Len(idle'[q]), idle'[p][i] = idle'[q][j]
             PROVE  p = q /\ i = j
  OBVIOUS
<1>1. i \in 1..Len(idle[p]) /\ j \in 1..Len(idle[q]) /\ idle[p][i] = idle[q][j]
  BY DEF NoNewEntry
<1> QED BY <1>1 DEF PoolInv, Apart

LEMMA FewerInv ==
  ASSUME PoolInv, PoolTyped', Counted', NoNewEntry, made' = made, open' \subseteq open,
         \A u \in Trio : user'[u].at = "outside" \/ user'[u] = user[u],
         \A d \in open', q \in Pool!Pools : At(d, q) => At(d, q)'
  PROVE  PoolInv'
<1>1. \A u \in Trio : Inside(u)' => Inside(u) /\ user'[u] = user[u]
  BY DEF Inside
<1>2. Numbered'
  <2>1. \A p \in Pool!Pools : \A i \in 1..Len(idle'[p]) : idle'[p][i] \in 1..made'
    BY DEF NoNewEntry, PoolInv, Numbered
  <2>2. \A u \in Trio : user'[u].at # "outside" => user'[u].pool # 0
    BY DEF PoolInv, Numbered
  <2>3. \A u \in Trio : Inside(u)' => user'[u].conn \in 1..made'
    BY <1>1 DEF PoolInv, Numbered
  <2> QED BY <2>1, <2>2, <2>3 DEF Numbered
<1>3. Apart'
  <2>1. \A u, v \in Trio : u # v /\ Inside(u)' /\ Inside(v)' => user'[u].conn # user'[v].conn
    BY <1>1 DEF PoolInv, Apart
  <2>2. \A u \in Trio, p \in Pool!Pools : \A i \in 1..Len(idle'[p]) : Inside(u)' => idle'[p][i] # user'[u].conn
    BY <1>1 DEF NoNewEntry, PoolInv, Apart
  <2>3. \A p, q \in Pool!Pools : \A i \in 1..Len(idle'[p]), j \in 1..Len(idle'[q]) :
          idle'[p][i] = idle'[q][j] => p = q /\ i = j
    BY EntriesApart
  <2> QED BY <2>1, <2>2, <2>3 DEF Apart
<1>4. Limited'
  <2>1. \A q \in Pool!Pools : \A d \in open' : At(d, q)' => d \in open /\ At(d, q)
    BY <1>1 DEF NoNewEntry, At
  <2>2. \A q \in Pool!Pools : Cardinality(Busy(q)') <= MaxConnections
    BY <2>1, NoneAdded
  <2>3. \A d \in open' : \E q \in Pool!Pools : At(d, q)'
    BY DEF PoolInv, Limited
  <2> QED BY <2>2, <2>3 DEF Limited, Pool!Pools
<1> QED BY <1>2, <1>3, <1>4 DEF PoolInv

LEMMA TakeOne ==
  ASSUME PoolInv, NEW t \in Trio, NEW p \in Nat, NEW c \in 1..made', p # 0,
         made' \in Nat, made <= made', NoNewEntry,
         \A q \in Pool!Pools : \A j \in 1..Len(idle'[q]) : idle'[q][j] # c,
         \A u \in Trio \ {t} : Inside(u) => user[u].conn # c,
         user'[t].at = "inside", user'[t].pool = p, user'[t].conn = c,
         \A u \in Trio \ {t} : user'[u] = user[u]
  PROVE  Numbered' /\ Apart'
<1>1. \A u \in Trio \ {t} : Inside(u)' => Inside(u) /\ user'[u] = user[u]
  BY DEF Inside
<1>2. Numbered'
  <2>0. made \in Nat /\ 1..made \subseteq 1..made'
    BY DEF PoolInv, PoolTyped
  <2>1. \A q \in Pool!Pools : \A i \in 1..Len(idle'[q]) : idle'[q][i] \in 1..made'
    BY <2>0 DEF NoNewEntry, PoolInv, Numbered
  <2>2. \A u \in Trio : user'[u].at # "outside" => user'[u].pool # 0
    BY DEF PoolInv, Numbered
  <2>3. \A u \in Trio : Inside(u)' => user'[u].conn \in 1..made'
    BY <1>1, <2>0 DEF PoolInv, Numbered
  <2> QED BY <2>1, <2>2, <2>3 DEF Numbered
<1>3. Apart'
  <2>1. \A u, v \in Trio : u # v /\ Inside(u)' /\ Inside(v)' => user'[u].conn # user'[v].conn
    BY <1>1 DEF PoolInv, Apart
  <2>2. \A u \in Trio, q \in Pool!Pools : \A i \in 1..Len(idle'[q]) : Inside(u)' => idle'[q][i] # user'[u].conn
    BY <1>1 DEF NoNewEntry, PoolInv, Apart
  <2>3. \A q, r \in Pool!Pools : \A i \in 1..Len(idle'[q]), j \in 1..Len(idle'[r]) :
          idle'[q][i] = idle'[r][j] => q = r /\ i = j
    BY EntriesApart
  <2> QED BY <2>1, <2>2, <2>3 DEF Apart
<1> QED BY <1>2, <1>3

(* close_all_pools.                                                         *)
LEMMA CloseAllInv ==
  ASSUME PoolInv, Pool!CloseAll
  PROVE  PoolInv'
<1> PICK p \in Nat : p = current
  BY DEF PoolInv, PoolTyped
<1>1. /\ p # 0 /\ shut' = [shut EXCEPT ![p] = TRUE]
      /\ open' = open \ (Pool!From(idle[p], 1) \cup inUse[p])
      /\ idle' = [idle EXCEPT ![p] = <<>>] /\ inUse' = [inUse EXCEPT ![p] = {}]
      /\ current' = 0 /\ UNCHANGED <<pools, made, answers, user>>
  BY DEF Pool!CloseAll
<1>2. p \in Pool!Pools /\ p <= pools
  BY <1>1, PartsAssumption DEF PoolInv, PoolTyped, Pool!Pools
<1>3. /\ idle' \in [Pool!Pools -> Seq(Nat)] /\ idle'[p] = <<>>
      /\ \A q \in Pool!Pools \ {p} : idle'[q] = idle[q]
  <2>1. idle \in [Pool!Pools -> Seq(Nat)] /\ <<>> \in Seq(Nat)
    BY DEF PoolInv, PoolTyped
  <2> QED BY <2>1, <1>1, <1>2
<1>4. /\ inUse' \in [Pool!Pools -> SUBSET (1..made)] /\ inUse'[p] = {}
      /\ \A q \in Pool!Pools \ {p} : inUse'[q] = inUse[q]
  <2>1. inUse \in [Pool!Pools -> SUBSET (1..made)]
    BY DEF PoolInv, PoolTyped
  <2> QED BY <2>1, <1>1, <1>2
<1>5. /\ shut' \in [Pool!Pools -> BOOLEAN] /\ shut'[p]
      /\ \A q \in Pool!Pools \ {p} : shut'[q] = shut[q]
  <2>1. shut \in [Pool!Pools -> BOOLEAN]
    BY DEF PoolInv, PoolTyped
  <2> QED BY <2>1, <1>1, <1>2
<1>6. NoNewEntry
  BY <1>3 DEF NoNewEntry
<1>7. PoolTyped'
  <2>0. pools \in Nat /\ open \subseteq 1..made
    BY DEF PoolInv, PoolTyped
  <2>1. 0 \in 0..pools /\ open' \subseteq 1..made
    <3>1. open' \subseteq open
      BY <1>1
    <3>2. 0 \in 0..pools
      BY <2>0
    <3> QED BY <2>0, <3>1, <3>2
  <2> QED BY <2>1, <1>1, <1>3, <1>4, <1>5 DEF PoolInv, PoolTyped, Pool!Pools
<1>8. Counted'
  <2>1. \A u \in Trio : Inside(u)' /\ user'[u].conn \in open' => user'[u].conn \in inUse'[user'[u].pool]
    <3> SUFFICES ASSUME NEW u \in Trio, Inside(u), user[u].conn \in open'
                 PROVE  user[u].conn \in inUse'[user[u].pool]
      BY <1>1 DEF Inside
    <3>1. user[u].conn \in open /\ user[u].conn \notin inUse[p]
      BY <1>1
    <3>2. user[u].conn \in inUse[user[u].pool]
      BY <3>1 DEF PoolInv, Counted
    <3>3. user[u].pool \in Pool!Pools
      BY PartsAssumption DEF PoolInv, PoolTyped, Numbered, Inside, Pool!Pools
    <3> QED BY <3>1, <3>2, <3>3, <1>4
  <2>2. \A q \in Pool!Pools : shut'[q] => idle'[q] = <<>>
    BY <1>3, <1>5 DEF PoolInv, Counted
  <2>3. \A q \in Pool!Pools : q > pools' => ~shut'[q] /\ idle'[q] = <<>>
    <3> TAKE q \in Pool!Pools
    <3>1. q > pools => ~shut[q] /\ idle[q] = <<>>
      BY DEF PoolInv, Counted
    <3>2. q > pools => q # p
      BY <1>2, PartsAssumption DEF PoolInv, PoolTyped, Pool!Pools
    <3> QED BY <3>1, <3>2, <1>1, <1>3, <1>5
  <2> QED BY <2>1, <2>2, <2>3 DEF Counted, Pool!Pools
<1>9. \A d \in open', q \in Pool!Pools : At(d, q) => At(d, q)'
  <2>1. \A d \in open' : \A i \in 1..Len(idle[p]) : idle[p][i] # d
    BY <1>1 DEF Pool!From
  <2> QED BY <2>1, <1>1, <1>3 DEF At, Inside
<1> QED BY <1>1, <1>6, <1>7, <1>8, <1>9, FewerInv

(* finally: pool.release(conn).                                             *)
LEMMA ReleaseFacts ==
  ASSUME PoolInv, NEW t \in Trio, Pool!Release(t), NEW p \in Nat, p = user[t].pool,
         NEW c \in Nat, c = user[t].conn
  PROVE  /\ Inside(t) /\ p \in Pool!Pools /\ p <= pools /\ c \in 1..made
         /\ \A u \in Trio \ {t} : user'[u] = user[u]
         /\ user'[t].at = "outside"
         /\ user' \in [Trio -> [at : {"outside", "entered", "passed", "inside"}, pool : 0..pools, conn : Nat]]
         /\ inUse' \in [Pool!Pools -> SUBSET (1..made)] /\ inUse'[p] = inUse[p] \ {c}
         /\ \A q \in Pool!Pools \ {p} : inUse'[q] = inUse[q]
         /\ UNCHANGED <<current, pools, shut, made, answers>>
         /\ \/ idle' = [idle EXCEPT ![p] = Append(@, c)] /\ open' = open /\ ~shut[p]
            \/ open' = open \ {c} /\ idle' = idle
<1>1. /\ user[t].at = "inside" /\ inUse' = [inUse EXCEPT ![p] = @ \ {c}]
      /\ user' = [user EXCEPT ![t] = [at |-> "outside", pool |-> 0, conn |-> 0]]
      /\ UNCHANGED <<current, pools, shut, made, answers>>
      /\ \/ idle' = [idle EXCEPT ![p] = Append(@, c)] /\ open' = open /\ ~shut[p]
         \/ open' = open \ {c} /\ idle' = idle
  BY DEF Pool!Release, Pool!TakesBack, Pool!Outside
<1>2. p \in 0..pools /\ p # 0 /\ c \in 1..made /\ pools \in 0..MaxPools
  BY <1>1 DEF PoolInv, PoolTyped, Numbered, Inside
<1>3. p \in Pool!Pools /\ p <= pools /\ pools \in Nat
  BY <1>2, PartsAssumption DEF Pool!Pools
<1>4. /\ user' \in [Trio -> [at : {"outside", "entered", "passed", "inside"}, pool : 0..pools', conn : Nat]]
      /\ user'[t].at = "outside" /\ \A u \in Trio \ {t} : user'[u] = user[u]
  <2>1. 0 <= pools' /\ pools' \in Nat /\ pools <= pools'
    BY <1>1, <1>3
  <2> QED BY <1>1, <2>1, UserMoves
<1>5. /\ inUse' \in [Pool!Pools -> SUBSET (1..made)] /\ inUse'[p] = inUse[p] \ {c}
      /\ \A q \in Pool!Pools \ {p} : inUse'[q] = inUse[q]
  <2>1. inUse \in [Pool!Pools -> SUBSET (1..made)]
    BY DEF PoolInv, PoolTyped
  <2>2. inUse[p] \in SUBSET (1..made)
    BY <2>1, <1>3
  <2> QED BY <2>1, <2>2, <1>1, <1>3
<1> QED BY <1>1, <1>2, <1>3, <1>4, <1>5 DEF Inside

LEMMA ReleaseCounted ==
  ASSUME PoolInv, NEW t \in Trio, Pool!Release(t), NEW p \in Nat, p = user[t].pool,
         NEW c \in Nat, c = user[t].conn
  PROVE  \A u \in Trio : Inside(u)' /\ user'[u].conn \in open' => user'[u].conn \in inUse'[user'[u].pool]
<1> SUFFICES ASSUME NEW u \in Trio, Inside(u)', user'[u].conn \in open'
             PROVE  user'[u].conn \in inUse'[user'[u].pool]
  OBVIOUS
<1>1. /\ u # t /\ user'[u] = user[u] /\ Inside(u) /\ Inside(t) /\ open' \subseteq open
      /\ inUse'[p] = inUse[p] \ {c} /\ \A q \in Pool!Pools \ {p} : inUse'[q] = inUse[q]
  BY ReleaseFacts DEF Inside
<1>2. user[u].conn # c /\ user[u].conn \in inUse[user[u].pool]
  BY <1>1 DEF PoolInv, Apart, Counted
<1>3. user[u].pool \in Pool!Pools
  BY <1>1, PartsAssumption DEF PoolInv, PoolTyped, Numbered, Inside, Pool!Pools
<1> QED BY <1>1, <1>2, <1>3

LEMMA ReleaseInv ==
  ASSUME PoolInv, NEW t \in Trio, Pool!Release(t)
  PROVE  PoolInv'
<1> PICK p \in Nat : p = user[t].pool
  BY DEF PoolInv, PoolTyped
<1> PICK c \in Nat : c = user[t].conn
  BY DEF PoolInv, PoolTyped
<1>1. /\ Inside(t) /\ p \in Pool!Pools /\ p <= pools /\ c \in 1..made
      /\ \A u \in Trio \ {t} : user'[u] = user[u]
      /\ user'[t].at = "outside"
      /\ user' \in [Trio -> [at : {"outside", "entered", "passed", "inside"}, pool : 0..pools, conn : Nat]]
      /\ inUse' \in [Pool!Pools -> SUBSET (1..made)]
      /\ UNCHANGED <<current, pools, shut, made, answers>>
      /\ \/ idle' = [idle EXCEPT ![p] = Append(@, c)] /\ open' = open /\ ~shut[p]
         \/ open' = open \ {c} /\ idle' = idle
  BY ReleaseFacts
<1>2. \A u \in Trio : Inside(u)' /\ user'[u].conn \in open' => user'[u].conn \in inUse'[user'[u].pool]
  BY ReleaseCounted
<1>3. CASE open' = open \ {c} /\ idle' = idle
  <2>1. PoolTyped'
    BY <1>1, <1>3 DEF PoolInv, PoolTyped, Pool!Pools
  <2>2. Counted'
    BY <1>1, <1>2, <1>3 DEF PoolInv, Counted, Pool!Pools
  <2>3. NoNewEntry
    BY <1>3 DEF NoNewEntry
  <2>4. \A d \in open', q \in Pool!Pools : At(d, q) => At(d, q)'
    <3> SUFFICES ASSUME NEW d \in open', NEW q \in Pool!Pools, At(d, q) PROVE At(d, q)'
      OBVIOUS
    <3>1. CASE \E u \in Trio : Inside(u) /\ user[u].pool = q /\ user[u].conn = d
      BY <3>1, <1>1, <1>3 DEF At, Inside
    <3>2. CASE \E i \in 1..Len(idle[q]) : idle[q][i] = d
      BY <3>2, <1>3 DEF At
    <3> QED BY <3>1, <3>2 DEF At
  <2>5. \A u \in Trio : user'[u].at = "outside" \/ user'[u] = user[u]
    BY <1>1
  <2> QED BY <1>1, <1>3, <2>1, <2>2, <2>3, <2>4, <2>5, FewerInv
<1>4. CASE idle' = [idle EXCEPT ![p] = Append(@, c)] /\ open' = open /\ ~shut[p]
  <2> PICK n \in Nat : n = Len(idle[p])
    BY <1>1 DEF PoolInv, PoolTyped
  <2>1. /\ idle' \in [Pool!Pools -> Seq(Nat)] /\ Len(idle'[p]) = n + 1
        /\ idle'[p][n + 1] = c /\ \A i \in 1..n : idle'[p][i] = idle[p][i]
        /\ \A q \in Pool!Pools \ {p} : idle'[q] = idle[q]
    <3>1. idle \in [Pool!Pools -> Seq(Nat)] /\ idle[p] \in Seq(Nat)
      BY <1>1 DEF PoolInv, PoolTyped
    <3>2. Append(idle[p], c) \in Seq(Nat) /\ Len(Append(idle[p], c)) = n + 1
          /\ Append(idle[p], c)[n + 1] = c /\ \A i \in 1..n : Append(idle[p], c)[i] = idle[p][i]
      BY <3>1, AppendProperties
    <3>3. idle'[p] = Append(idle[p], c) /\ \A q \in Pool!Pools \ {p} : idle'[q] = idle[q]
      BY <1>1, <1>4, <3>1
    <3>4. idle' \in [Pool!Pools -> Seq(Nat)]
      BY <1>1, <1>4, <3>1, <3>2
    <3> QED BY <3>2, <3>3, <3>4
  <2>2. \A q \in Pool!Pools : \A i \in 1..Len(idle'[q]) :
          \/ i \in 1..Len(idle[q]) /\ idle'[q][i] = idle[q][i]
          \/ q = p /\ i = n + 1 /\ idle'[q][i] = c
    <3> TAKE q \in Pool!Pools
    <3> TAKE i \in 1..Len(idle'[q])
    <3>1. CASE q = p /\ i = n + 1
      BY <3>1, <2>1
    <3>2. CASE q = p /\ i # n + 1
      <4>1. i \in 1..n
        BY <3>2, <2>1
      <4> QED BY <3>2, <4>1, <2>1
    <3>3. CASE q # p
      BY <3>3, <2>1
    <3> QED BY <3>1, <3>2, <3>3
  <2>a. \A q \in Pool!Pools : \A i \in 1..Len(idle[q]) :
          i \in 1..Len(idle'[q]) /\ idle'[q][i] = idle[q][i]
    <3> TAKE q \in Pool!Pools
    <3>1. CASE q = p
      BY <3>1, <2>1
    <3>2. CASE q # p
      BY <3>2, <2>1
    <3> QED BY <3>1, <3>2
  <2>3. /\ \A q \in Pool!Pools : \A i \in 1..Len(idle[q]) : idle[q][i] # c
        /\ \A u \in Trio \ {t} : Inside(u) => user[u].conn # c
    BY <1>1 DEF PoolInv, Apart
  <2>4. \A u \in Trio : Inside(u)' => u # t /\ Inside(u) /\ user'[u] = user[u]
    BY <1>1 DEF Inside
  <2>5. PoolTyped'
    BY <1>1, <1>4, <2>1 DEF PoolInv, PoolTyped, Pool!Pools
  <2>6. Numbered'
    <3>1. \A q \in Pool!Pools : \A i \in 1..Len(idle'[q]) : idle'[q][i] \in 1..made
      BY <1>1, <2>2 DEF PoolInv, Numbered
    <3> QED BY <1>1, <2>4, <3>1 DEF PoolInv, Numbered, Pool!Pools
  <2>7. Apart'
    <3>1. \A u, v \in Trio : u # v /\ Inside(u)' /\ Inside(v)' => user'[u].conn # user'[v].conn
      BY <2>4 DEF PoolInv, Apart
    <3>2. \A u \in Trio, q \in Pool!Pools : \A i \in 1..Len(idle'[q]) : Inside(u)' => idle'[q][i] # user'[u].conn
      BY <2>2, <2>3, <2>4 DEF PoolInv, Apart
    <3>3. \A q, r \in Pool!Pools : \A i \in 1..Len(idle'[q]), j \in 1..Len(idle'[r]) :
            idle'[q][i] = idle'[r][j] => q = r /\ i = j
      <4> SUFFICES ASSUME NEW q \in Pool!Pools, NEW r \in Pool!Pools,
                          NEW i \in 1..Len(idle'[q]), NEW j \in 1..Len(idle'[r]), idle'[q][i] = idle'[r][j]
                   PROVE  q = r /\ i = j
        OBVIOUS
      <4>1. CASE idle'[q][i] = c
        <5>1. q = p /\ i = n + 1
          BY <4>1, <2>2, <2>3
        <5>2. r = p /\ j = n + 1
          BY <4>1, <2>2, <2>3
        <5> QED BY <5>1, <5>2
      <4>2. CASE idle'[q][i] # c
        <5>1. i \in 1..Len(idle[q]) /\ j \in 1..Len(idle[r]) /\ idle[q][i] = idle[r][j]
          BY <4>2, <2>2
        <5>2. Apart
          BY DEF PoolInv
        <5> QED BY <5>1, <5>2 DEF Apart
      <4> QED BY <4>1, <4>2
    <3> QED BY <3>1, <3>2, <3>3 DEF Apart
  <2>8. Counted'
    <3>1. \A q \in Pool!Pools : shut'[q] => idle'[q] = <<>>
      BY <1>1, <1>4, <2>1 DEF PoolInv, Counted
    <3>2. \A q \in Pool!Pools : q > pools' => ~shut'[q] /\ idle'[q] = <<>>
      <4> TAKE q \in Pool!Pools
      <4>1. q > pools => ~shut[q] /\ idle[q] = <<>>
        BY DEF PoolInv, Counted
      <4>2. q > pools => q # p
        BY <1>1, PartsAssumption DEF PoolInv, PoolTyped, Pool!Pools
      <4> QED BY <4>1, <4>2, <1>1, <2>1
    <3> QED BY <1>2, <3>1, <3>2 DEF Counted, Pool!Pools
  <2>9. \A d, q : At(d, q)' /\ q \in Pool!Pools => At(d, q)
    <3> SUFFICES ASSUME NEW q \in Pool!Pools, NEW d, At(d, q)' PROVE At(d, q)
      OBVIOUS
    <3>1. CASE \E u \in Trio : Inside(u)' /\ user'[u].pool = q /\ user'[u].conn = d
      BY <3>1, <2>4 DEF At
    <3>2. CASE \E i \in 1..Len(idle'[q]) : idle'[q][i] = d
      BY <3>2, <2>2, <1>1 DEF At
    <3> QED BY <3>1, <3>2 DEF At
  <2>10. \A d \in open, q \in Pool!Pools : At(d, q) => At(d, q)'
    <3> SUFFICES ASSUME NEW d \in open, NEW q \in Pool!Pools, At(d, q) PROVE At(d, q)'
      OBVIOUS
    <3>1. CASE \E i \in 1..Len(idle[q]) : idle[q][i] = d
      <4>1. \E i \in 1..Len(idle'[q]) : idle'[q][i] = d
        BY <3>1, <2>a
      <4> QED BY <4>1 DEF At
    <3>2. CASE \E u \in Trio \ {t} : Inside(u) /\ user[u].pool = q /\ user[u].conn = d
      BY <3>2, <1>1 DEF At, Inside
    <3>3. CASE d = c /\ q = p
      <4>1. n + 1 \in 1..Len(idle'[q]) /\ idle'[q][n + 1] = d
        BY <3>3, <2>1
      <4> QED BY <4>1 DEF At
    <3> QED BY <3>1, <3>2, <3>3 DEF At
  <2>11. Limited'
    <3>1. \A q \in Pool!Pools : Cardinality(Busy(q)') <= MaxConnections
      BY <1>4, <2>9, NoneAdded
    <3>2. \A d \in open' : \E q \in Pool!Pools : At(d, q)'
      BY <1>4, <2>10 DEF PoolInv, Limited
    <3> QED BY <3>1, <3>2 DEF Limited, Pool!Pools
  <2> QED BY <2>5, <2>6, <2>7, <2>8, <2>11 DEF PoolInv
<1> QED BY <1>1, <1>3, <1>4

(* The connections that acquire looks at, from the end of the list: there   *)
(* is a last one that answers, or none does.                                *)
LEMMA HighestIn ==
  ASSUME NEW n \in Nat, NEW G \in SUBSET (1..n), G # {}
  PROVE  \E i \in G : \A j \in G : j <= i
<1> DEFINE T == {i..n : i \in G}
<1>1. IsWellFoundedOn(StrictSubsetOrdering(1..n), FiniteSubsetsOf(1..n))
  BY FS_StrictSubsetOrderingWellFounded
<1>2. \A i \in G : i \in 1..n /\ i..n \subseteq 1..n /\ i \in i..n
  OBVIOUS
<1>3. T \subseteq FiniteSubsetsOf(1..n) /\ T # {}
  <2>1. FiniteSubsetsOf(1..n) = SUBSET (1..n)
    <3>1. IsFiniteSet(1..n)
      BY FS_Interval
    <3> QED BY <3>1, FS_FiniteSubsetsOfFinite
  <2>2. T \subseteq SUBSET (1..n)
    BY <1>2
  <2>3. T # {}
    OBVIOUS
  <2> HIDE DEF T
  <2> QED BY <2>1, <2>2, <2>3
<1>4. PICK x \in T : \A y \in T : ~(<<y, x>> \in StrictSubsetOrdering(1..n))
  <2> HIDE DEF T
  <2> QED BY <1>1, <1>3, WFMin
<1>5. PICK i \in G : x = i..n
  BY <1>4
<1>6. \A j \in G : j <= i
  <2> SUFFICES ASSUME NEW j \in G, j > i PROVE FALSE
    BY <1>2
  <2>1. j..n \subseteq i..n /\ i \notin j..n
    BY <1>2
  <2>2. j..n # i..n
    BY <1>2, <2>1
  <2>3. <<j..n, i..n>> \in StrictSubsetOrdering(1..n)
    BY <1>2, <2>1, <2>2 DEF StrictSubsetOrdering
  <2> QED BY <1>4, <1>5, <2>3
<1> QED BY <1>6

LEMMA LastAnsweringRange ==
  ASSUME NEW s \in Seq(Nat)
  PROVE  Pool!LastAnswering(s) \in 0..Len(s)
<1> DEFINE G == {i \in 1..Len(s) : s[i] \in open \cap answers}
           P(i) == /\ i > 0 => s[i] \in open \cap answers
                   /\ \A j \in (i + 1)..Len(s) : s[j] \notin open \cap answers
<1>1. Len(s) \in Nat
  OBVIOUS
<1>2. \E i \in 0..Len(s) : P(i)
  <2>1. CASE G = {}
    <3>1. P(0)
      BY <1>1, <2>1
    <3> QED BY <1>1, <3>1
  <2>2. CASE G # {}
    <3>1. G \in SUBSET (1..Len(s))
      OBVIOUS
    <3>2. PICK i \in G : \A j \in G : j <= i
      <4> HIDE DEF G
      <4> QED BY <1>1, <2>2, <3>1, HighestIn
    <3>3. i \in 0..Len(s) /\ P(i)
      BY <1>1, <3>2
    <3> QED BY <3>3
  <2> QED BY <2>1, <2>2
<1>3. Pool!LastAnswering(s) = CHOOSE i \in 0..Len(s) : P(i)
  BY DEF Pool!LastAnswering
<1> HIDE DEF P
<1> QED BY <1>2, <1>3

(* acquire: a connection of the list is handed out.                         *)
Reused(t, p, i, c) ==
  /\ user[t].at = "passed" /\ p # 0 /\ p \in Pool!Pools /\ p <= pools /\ i \in 1..Len(idle[p]) /\ c \in 1..made
  /\ user'[t].at = "inside" /\ user'[t].pool = p /\ user'[t].conn = c
  /\ \A u \in Trio \ {t} : user'[u] = user[u]
  /\ inUse'[p] = inUse[p] \cup {c} /\ \A q \in Pool!Pools \ {p} : inUse'[q] = inUse[q]
  /\ Len(idle'[p]) = i - 1 /\ \A j \in 1..(i - 1) : idle'[p][j] = idle[p][j]
  /\ \A q \in Pool!Pools \ {p} : idle'[q] = idle[q]
  /\ open' = open \ {idle[p][j] : j \in (i + 1)..Len(idle[p])}
  /\ UNCHANGED <<current, pools, shut, made, answers>>

LEMMA ReuseFacts ==
  ASSUME PoolInv, NEW t \in Trio, Pool!Reuse(t), NEW p \in Nat, p = user[t].pool,
         NEW i \in Nat, i = Pool!LastAnswering(idle[p]), NEW c \in Nat, c = idle[p][i]
  PROVE  Reused(t, p, i, c) /\ PoolTyped'
<1>1. /\ user[t].at = "passed" /\ i > 0
      /\ open' = open \ Pool!From(idle[p], i + 1)
      /\ idle' = [idle EXCEPT ![p] = SubSeq(@, 1, i - 1)]
      /\ inUse' = [inUse EXCEPT ![p] = @ \cup {c}]
      /\ user' = [user EXCEPT ![t] = [at |-> "inside", pool |-> p, conn |-> c]]
      /\ UNCHANGED <<current, pools, shut, made, answers>>
  BY DEF Pool!Reuse, Pool!Move
<1>2. p \in 0..pools /\ p # 0 /\ pools \in 0..MaxPools
  BY <1>1 DEF PoolInv, PoolTyped, Numbered
<1>3. p \in Pool!Pools /\ p <= pools /\ pools \in Nat
  BY <1>2, PartsAssumption DEF Pool!Pools
<1>4. idle \in [Pool!Pools -> Seq(Nat)] /\ idle[p] \in Seq(Nat)
  BY <1>3 DEF PoolInv, PoolTyped
<1>5. i \in 1..Len(idle[p])
  <2>1. i \in 0..Len(idle[p])
    BY <1>4, LastAnsweringRange
  <2> QED BY <1>1, <2>1
<1>6. c \in 1..made
  BY <1>3, <1>5 DEF PoolInv, Numbered
<1>7. /\ user' \in [Trio -> [at : {"outside", "entered", "passed", "inside"}, pool : 0..pools', conn : Nat]]
      /\ user'[t].at = "inside" /\ user'[t].pool = p /\ user'[t].conn = c
      /\ \A u \in Trio \ {t} : user'[u] = user[u]
  <2>1. p <= pools' /\ pools' \in Nat /\ pools <= pools'
    BY <1>1, <1>3
  <2>2. user' = [user EXCEPT ![t] = [at |-> "inside", pool |-> p, conn |-> c]]
    BY <1>1
  <2> QED BY <2>1, <2>2, UserMoves
<1>8. /\ inUse' \in [Pool!Pools -> SUBSET (1..made)] /\ inUse'[p] = inUse[p] \cup {c}
      /\ \A q \in Pool!Pools \ {p} : inUse'[q] = inUse[q]
  <2>1. inUse \in [Pool!Pools -> SUBSET (1..made)]
    BY DEF PoolInv, PoolTyped
  <2>2. inUse[p] \cup {c} \in SUBSET (1..made)
    BY <2>1, <1>3, <1>6
  <2> QED BY <2>1, <2>2, <1>1, <1>3
<1>9. /\ idle' \in [Pool!Pools -> Seq(Nat)] /\ idle'[p] = SubSeq(idle[p], 1, i - 1)
      /\ \A q \in Pool!Pools \ {p} : idle'[q] = idle[q]
      /\ Len(SubSeq(idle[p], 1, i - 1)) = i - 1
      /\ \A j \in 1..(i - 1) : SubSeq(idle[p], 1, i - 1)[j] = idle[p][j]
  <2>1. \A j \in 1..(i - 1) : idle[p][j] \in Nat
    <3> TAKE j \in 1..(i - 1)
    <3>1. Len(idle[p]) \in Nat
      BY <1>4
    <3>2. j \in 1..Len(idle[p])
      BY <1>5, <3>1
    <3> QED BY <1>4, <3>2, ElementOfSeq
  <2>2. /\ SubSeq(idle[p], 1, i - 1) \in Seq(Nat) /\ Len(SubSeq(idle[p], 1, i - 1)) = i - 1
        /\ \A j \in 1..(i - 1) : SubSeq(idle[p], 1, i - 1)[j] = idle[p][j]
    BY <2>1, <1>5, SubSeqProperties
  <2> QED BY <1>1, <1>3, <1>4, <2>2
<1>10. open' = open \ {idle[p][j] : j \in (i + 1)..Len(idle[p])} /\ open' \subseteq 1..made
  BY <1>1 DEF Pool!From, PoolInv, PoolTyped
<1>11. PoolTyped'
  BY <1>1, <1>7, <1>8, <1>9, <1>10 DEF PoolInv, PoolTyped, Pool!Pools
<1> QED BY <1>1, <1>2, <1>3, <1>5, <1>6, <1>7, <1>8, <1>9, <1>10, <1>11 DEF Reused

LEMMA ReuseInv ==
  ASSUME PoolInv, NEW t \in Trio, Pool!Reuse(t)
  PROVE  PoolInv'
<1> PICK p \in Nat : p = user[t].pool
  BY DEF PoolInv, PoolTyped
<1>0. user[t].at = "passed"
  BY DEF Pool!Reuse
<1>1. p \in Pool!Pools
  BY <1>0, PartsAssumption DEF PoolInv, PoolTyped, Numbered, Pool!Pools
<1>2. idle[p] \in Seq(Nat)
  BY <1>1 DEF PoolInv, PoolTyped
<1> PICK i \in Nat : i = Pool!LastAnswering(idle[p])
  BY <1>2, LastAnsweringRange
<1>3. i \in 1..Len(idle[p])
  <2>1. i \in 0..Len(idle[p])
    BY <1>2, LastAnsweringRange
  <2> QED BY <2>1 DEF Pool!Reuse
<1> PICK c \in Nat : c = idle[p][i]
  BY <1>2, <1>3
<1>f. Reused(t, p, i, c) /\ PoolTyped'
  BY ReuseFacts
<1>4. /\ p # 0 /\ p <= pools /\ c \in 1..made /\ PoolTyped'
      /\ user'[t].at = "inside" /\ user'[t].pool = p /\ user'[t].conn = c
      /\ \A u \in Trio \ {t} : user'[u] = user[u]
      /\ UNCHANGED <<current, pools, shut, made, answers>>
  BY <1>f DEF Reused
<1>5. inUse'[p] = inUse[p] \cup {c} /\ \A q \in Pool!Pools \ {p} : inUse'[q] = inUse[q]
  BY <1>f DEF Reused
<1>6. /\ Len(idle'[p]) = i - 1 /\ \A j \in 1..(i - 1) : idle'[p][j] = idle[p][j]
      /\ \A q \in Pool!Pools \ {p} : idle'[q] = idle[q]
  BY <1>f DEF Reused
<1>7. open' = open \ {idle[p][j] : j \in (i + 1)..Len(idle[p])}
  BY <1>f DEF Reused
<1>8. \A q \in Pool!Pools : \A j \in 1..Len(idle'[q]) :
        j \in 1..Len(idle[q]) /\ idle'[q][j] = idle[q][j] /\ (q # p \/ j # i)
  <2> TAKE q \in Pool!Pools
  <2>1. CASE q = p
    <3> TAKE j \in 1..Len(idle'[q])
    <3>1. Len(idle[p]) \in Nat /\ j \in 1..(i - 1)
      BY <2>1, <1>2, <1>6
    <3>2. j \in 1..Len(idle[p]) /\ j # i
      BY <3>1, <1>3
    <3> QED BY <2>1, <3>1, <3>2, <1>6
  <2>2. CASE q # p
    BY <2>2, <1>6
  <2> QED BY <2>1, <2>2
<1>9. Numbered' /\ Apart'
  <2>1. NoNewEntry
    BY <1>8 DEF NoNewEntry
  <2>2. \A q \in Pool!Pools : \A j \in 1..Len(idle'[q]) : idle'[q][j] # c
    <3>1. Apart
      BY DEF PoolInv
    <3> QED BY <3>1, <1>1, <1>3, <1>8 DEF Apart
  <2>3. \A u \in Trio \ {t} : Inside(u) => user[u].conn # c
    <3>1. Apart
      BY DEF PoolInv
    <3> QED BY <3>1, <1>1, <1>3 DEF Apart
  <2>4. made' \in Nat /\ made <= made' /\ c \in 1..made'
    BY <1>4 DEF PoolInv, PoolTyped
  <2> QED BY <1>4, <2>1, <2>2, <2>3, <2>4, TakeOne
<1>10. Counted'
  <2>1. \A u \in Trio : Inside(u)' /\ user'[u].conn \in open' => user'[u].conn \in inUse'[user'[u].pool]
    <3> SUFFICES ASSUME NEW u \in Trio, Inside(u)', user'[u].conn \in open'
                 PROVE  user'[u].conn \in inUse'[user'[u].pool]
      OBVIOUS
    <3>1. CASE u = t
      BY <3>1, <1>4, <1>5
    <3>2. CASE u # t
      <4>1. Inside(u) /\ user'[u] = user[u] /\ user[u].conn \in open
        BY <3>2, <1>4, <1>7 DEF Inside
      <4>2. user[u].conn \in inUse[user[u].pool]
        BY <4>1 DEF PoolInv, Counted
      <4>3. user[u].pool \in Pool!Pools
        BY <4>1, PoolOfUser DEF Inside
      <4> QED BY <4>1, <4>2, <4>3, <1>5
    <3> QED BY <3>1, <3>2
  <2>2. ~shut[p]
    <3>1. shut[p] => idle[p] = <<>>
      BY <1>1 DEF PoolInv, Counted
    <3> QED BY <3>1, <1>3
  <2>3. \A q \in Pool!Pools : shut'[q] => idle'[q] = <<>>
    BY <2>2, <1>4, <1>6 DEF PoolInv, Counted
  <2>4. \A q \in Pool!Pools : q > pools' => ~shut'[q] /\ idle'[q] = <<>>
    <3> TAKE q \in Pool!Pools
    <3>1. q > pools => ~shut[q] /\ idle[q] = <<>>
      BY DEF PoolInv, Counted
    <3>2. q > pools => q # p
      BY <1>4, PartsAssumption DEF PoolInv, PoolTyped, Pool!Pools
    <3> QED BY <3>1, <3>2, <1>4, <1>6
  <2> QED BY <2>1, <2>3, <2>4 DEF Counted, Pool!Pools
<1>11. Limited'
  <2>1. open' \subseteq open
    BY <1>7
  <2>2. \A d, q : q \in Pool!Pools /\ At(d, q)' => At(d, q)
    <3> SUFFICES ASSUME NEW q \in Pool!Pools, NEW d, At(d, q)' PROVE At(d, q)
      OBVIOUS
    <3>1. CASE \E u \in Trio \ {t} : Inside(u)' /\ user'[u].pool = q /\ user'[u].conn = d
      BY <3>1, <1>4 DEF At, Inside
    <3>2. CASE q = p /\ d = c
      BY <3>2, <1>3 DEF At
    <3>3. CASE \E j \in 1..Len(idle'[q]) : idle'[q][j] = d
      <4>1. \E j \in 1..Len(idle[q]) : idle[q][j] = d
        BY <3>3, <1>8
      <4> QED BY <4>1 DEF At
    <3> QED BY <3>1, <3>2, <3>3, <1>4 DEF At
  <2>3. \A q \in Pool!Pools : Cardinality(Busy(q)') <= MaxConnections
    BY <2>1, <2>2, NoneAdded
  <2>4. \A d \in open', q \in Pool!Pools : At(d, q) => At(d, q)'
    <3> SUFFICES ASSUME NEW d \in open', NEW q \in Pool!Pools, At(d, q) PROVE At(d, q)'
      OBVIOUS
    <3>1. CASE \E u \in Trio : Inside(u) /\ user[u].pool = q /\ user[u].conn = d
      BY <3>1, <1>0, <1>4 DEF At, Inside
    <3>2. ASSUME NEW j \in 1..Len(idle[q]), idle[q][j] = d PROVE At(d, q)'
      <4>1. CASE q # p
        BY <4>1, <3>2, <1>6 DEF At
      <4>2. CASE q = p /\ j = i
        BY <4>2, <3>2, <1>4 DEF At, Inside
      <4>3. CASE q = p /\ j < i
        <5>1. j \in 1..Len(idle'[q]) /\ idle'[q][j] = d
          BY <4>3, <3>2, <1>3, <1>6
        <5> QED BY <5>1 DEF At
      <4>4. CASE q = p /\ j > i
        BY <4>4, <3>2, <1>3, <1>7
      <4> QED BY <4>1, <4>2, <4>3, <4>4, <3>2, <1>3
    <3> QED BY <3>1, <3>2 DEF At
  <2>5. \A d \in open' : \E q \in Pool!Pools : At(d, q)'
    BY <2>1, <2>4 DEF PoolInv, Limited
  <2> QED BY <2>3, <2>5 DEF Limited, Pool!Pools
<1> QED BY <1>4, <1>9, <1>10, <1>11 DEF PoolInv

(* acquire: no connection of the list answers; the list is emptied, and one *)
(* is made when there is room.                                              *)
LEMMA EmptiedFacts ==
  ASSUME PoolInv, NEW t \in Trio, Pool!Make(t), NEW p \in Nat, p = user[t].pool
  PROVE  /\ user[t].at = "passed" /\ p # 0 /\ p \in Pool!Pools /\ p <= pools
         /\ idle' \in [Pool!Pools -> Seq(Nat)] /\ idle'[p] = <<>>
         /\ \A q \in Pool!Pools \ {p} : idle'[q] = idle[q]
         /\ NoNewEntry /\ UNCHANGED <<current, pools, shut>>
<1>1. /\ user[t].at = "passed" /\ idle' = [idle EXCEPT ![p] = <<>>]
      /\ UNCHANGED <<current, pools, shut>>
  BY DEF Pool!Make
<1>2. p \in Pool!Pools /\ p <= pools
  BY <1>1, PoolOfUser
<1>3. p # 0
  BY <1>1 DEF PoolInv, Numbered
<1>4. /\ idle' \in [Pool!Pools -> Seq(Nat)] /\ idle'[p] = <<>>
      /\ \A q \in Pool!Pools \ {p} : idle'[q] = idle[q]
  <2>1. idle \in [Pool!Pools -> Seq(Nat)] /\ <<>> \in Seq(Nat)
    BY DEF PoolInv, PoolTyped
  <2> QED BY <2>1, <1>1, <1>2
<1>5. NoNewEntry
  BY <1>4 DEF NoNewEntry
<1> QED BY <1>1, <1>2, <1>3, <1>4, <1>5

LEMMA EmptiedShut ==
  ASSUME PoolInv, NEW t \in Trio, Pool!Make(t)
  PROVE  \A q \in Pool!Pools : (shut'[q] => idle'[q] = <<>>) /\ (q > pools' => ~shut'[q] /\ idle'[q] = <<>>)
<1> PICK p \in Nat : p = user[t].pool
  BY DEF PoolInv, PoolTyped
<1>1. /\ p \in Pool!Pools /\ p <= pools /\ idle'[p] = <<>>
      /\ \A q \in Pool!Pools \ {p} : idle'[q] = idle[q]
      /\ UNCHANGED <<current, pools, shut>>
  BY EmptiedFacts
<1>2. pools \in Nat /\ Pool!Pools \subseteq Nat
  BY PartsAssumption DEF PoolInv, PoolTyped, Pool!Pools
<1>3. \A q \in Pool!Pools : (shut[q] => idle[q] = <<>>) /\ (q > pools => ~shut[q] /\ idle[q] = <<>>)
  BY DEF PoolInv, Counted
<1> QED BY <1>1, <1>2, <1>3

LEMMA NoneMadeInv ==
  ASSUME PoolInv, NEW t \in Trio, Pool!Make(t), made' = made,
         open' = open \ Pool!From(idle[user[t].pool], 1), user' = [user EXCEPT ![t] = Pool!Outside],
         UNCHANGED <<answers, inUse>>
  PROVE  PoolInv'
<1> PICK p \in Nat : p = user[t].pool
  BY DEF PoolInv, PoolTyped
<1>1. /\ user[t].at = "passed" /\ p \in Pool!Pools
      /\ idle' \in [Pool!Pools -> Seq(Nat)] /\ idle'[p] = <<>>
      /\ \A q \in Pool!Pools \ {p} : idle'[q] = idle[q]
      /\ NoNewEntry /\ UNCHANGED <<current, pools, shut>>
  BY EmptiedFacts
<1>2. open' \subseteq open /\ \A d \in open' : \A i \in 1..Len(idle[p]) : idle[p][i] # d
  BY DEF Pool!From
<1>3. /\ user' \in [Trio -> [at : {"outside", "entered", "passed", "inside"}, pool : 0..pools', conn : Nat]]
      /\ user'[t].at = "outside" /\ \A u \in Trio \ {t} : user'[u] = user[u]
  <2>1. pools' \in Nat /\ pools <= pools' /\ 0 <= pools'
    BY <1>1 DEF PoolInv, PoolTyped
  <2>2. user' = [user EXCEPT ![t] = [at |-> "outside", pool |-> 0, conn |-> 0]]
    BY DEF Pool!Outside
  <2> QED BY <2>1, <2>2, UserMoves
<1>4. PoolTyped'
  <2>1. open' \subseteq 1..made
    BY <1>2 DEF PoolInv, PoolTyped
  <2> QED BY <1>1, <1>3, <2>1 DEF PoolInv, PoolTyped, Pool!Pools
<1>5. Counted'
  <2>1. \A u \in Trio : Inside(u)' /\ user'[u].conn \in open' => user'[u].conn \in inUse'[user'[u].pool]
    BY <1>2, <1>3 DEF PoolInv, Counted, Inside
  <2> QED BY <2>1, EmptiedShut DEF Counted, Pool!Pools
<1>6. \A d \in open', q \in Pool!Pools : At(d, q) => At(d, q)'
  <2> SUFFICES ASSUME NEW d \in open', NEW q \in Pool!Pools, At(d, q) PROVE At(d, q)'
    OBVIOUS
  <2>1. CASE \E u \in Trio : Inside(u) /\ user[u].pool = q /\ user[u].conn = d
    BY <2>1, <1>1, <1>3 DEF At, Inside
  <2>2. CASE \E i \in 1..Len(idle[q]) : idle[q][i] = d
    <3>1. q # p
      BY <2>2, <1>2
    <3> QED BY <2>2, <3>1, <1>1 DEF At
  <2> QED BY <2>1, <2>2 DEF At
<1>7. \A u \in Trio : user'[u].at = "outside" \/ user'[u] = user[u]
  BY <1>3
<1> QED BY <1>1, <1>2, <1>4, <1>5, <1>6, <1>7, FewerInv

LEMMA OneMadeInv ==
  ASSUME PoolInv, NEW t \in Trio, Pool!Make(t), NEW p \in Nat, p = user[t].pool, NEW m \in Nat, m = made + 1,
         Cardinality(inUse[p]) < MaxConnections, made' = m,
         open' = (open \ Pool!From(idle[p], 1)) \cup {m}, answers' = answers \cup {m},
         inUse' = [inUse EXCEPT ![p] = @ \cup {m}],
         user' = [user EXCEPT ![t] = [at |-> "inside", pool |-> p, conn |-> m]]
  PROVE  PoolInv'
<1>1. /\ user[t].at = "passed" /\ p # 0 /\ p \in Pool!Pools /\ p <= pools
      /\ idle' \in [Pool!Pools -> Seq(Nat)] /\ idle'[p] = <<>>
      /\ \A q \in Pool!Pools \ {p} : idle'[q] = idle[q]
      /\ NoNewEntry /\ UNCHANGED <<current, pools, shut>>
  BY EmptiedFacts
<1>2. made \in Nat /\ made < m /\ m \in 1..m /\ 1..made \subseteq 1..m /\ open \subseteq 1..made /\ answers \subseteq 1..made
  BY DEF PoolInv, PoolTyped
<1>3. /\ \A d \in open' : d # m => d \in open
      /\ \A d \in open' : d # m => \A i \in 1..Len(idle[p]) : idle[p][i] # d
      /\ open' \subseteq 1..m /\ answers' \subseteq 1..m
  BY <1>2 DEF Pool!From
<1>4. /\ user' \in [Trio -> [at : {"outside", "entered", "passed", "inside"}, pool : 0..pools', conn : Nat]]
      /\ user'[t].at = "inside" /\ user'[t].pool = p /\ user'[t].conn = m
      /\ \A u \in Trio \ {t} : user'[u] = user[u]
  <2>1. pools' \in Nat /\ pools <= pools' /\ p <= pools'
    BY <1>1 DEF PoolInv, PoolTyped
  <2> QED BY <2>1, UserMoves
<1>5. /\ inUse' \in [Pool!Pools -> SUBSET (1..m)] /\ inUse'[p] = inUse[p] \cup {m}
      /\ \A q \in Pool!Pools \ {p} : inUse'[q] = inUse[q]
  <2>1. inUse \in [Pool!Pools -> SUBSET (1..made)]
    BY DEF PoolInv, PoolTyped
  <2>2. inUse \in [Pool!Pools -> SUBSET (1..m)]
    BY <1>2, <2>1
  <2>3. inUse[p] \cup {m} \in SUBSET (1..m)
    BY <1>1, <1>2, <2>2
  <2> QED BY <1>1, <2>2, <2>3
<1>6. \A u \in Trio \ {t} : Inside(u)' => Inside(u) /\ user'[u] = user[u] /\ user[u].conn # m
  <2>1. \A u \in Trio : Inside(u) => user[u].conn \in 1..made
    BY DEF PoolInv, Numbered
  <2> QED BY <1>2, <1>4, <2>1 DEF Inside
<1>7. PoolTyped'
  BY <1>1, <1>3, <1>4, <1>5 DEF PoolInv, PoolTyped, Pool!Pools
<1>8. \A q \in Pool!Pools : \A i \in 1..Len(idle[q]) : idle[q][i] # m
  <2>1. \A q \in Pool!Pools : \A i \in 1..Len(idle[q]) : idle[q][i] \in 1..made
    BY DEF PoolInv, Numbered
  <2> QED BY <1>2, <2>1
<1>9. Numbered' /\ Apart'
  <2>1. \A q \in Pool!Pools : \A j \in 1..Len(idle'[q]) : idle'[q][j] # m
    BY <1>1, <1>8
  <2>2. \A u \in Trio \ {t} : Inside(u) => user[u].conn # m
    BY <1>4, <1>6 DEF Inside
  <2>3. m \in 1..made' /\ made' \in Nat /\ made <= made'
    BY <1>2
  <2> QED BY <1>1, <1>4, <2>1, <2>2, <2>3, TakeOne
<1>10. \A u \in Trio : Inside(u)' /\ user'[u].conn \in open' => user'[u].conn \in inUse'[user'[u].pool]
  <2> SUFFICES ASSUME NEW u \in Trio, Inside(u)', user'[u].conn \in open'
               PROVE  user'[u].conn \in inUse'[user'[u].pool]
    OBVIOUS
  <2>1. CASE u = t
    BY <2>1, <1>4, <1>5
  <2>2. CASE u # t
    <3>1. Inside(u) /\ user'[u] = user[u] /\ user[u].conn \in open
      BY <2>2, <1>3, <1>6
    <3>2. user[u].conn \in inUse[user[u].pool]
      BY <3>1 DEF PoolInv, Counted
    <3>3. user[u].pool \in Pool!Pools
      BY <3>1, PoolOfUser DEF Inside
    <3> QED BY <3>1, <3>2, <3>3, <1>5
  <2> QED BY <2>1, <2>2
<1>11. Counted'
  BY <1>10, EmptiedShut DEF Counted, Pool!Pools
<1>12. Limited'
  <2>1. \A q \in Pool!Pools \ {p} : \A d \in open' : At(d, q)' => d \in open /\ At(d, q)
    <3> SUFFICES ASSUME NEW q \in Pool!Pools \ {p}, NEW d \in open', At(d, q)'
                 PROVE  d \in open /\ At(d, q)
      OBVIOUS
    <3>1. At(d, q) /\ d # m
      <4>1. CASE \E u \in Trio : Inside(u)' /\ user'[u].pool = q /\ user'[u].conn = d
        BY <4>1, <1>4, <1>6 DEF At
      <4>2. CASE \E i \in 1..Len(idle'[q]) : idle'[q][i] = d
        BY <4>2, <1>1, <1>8 DEF At
      <4> QED BY <4>1, <4>2 DEF At
    <3> QED BY <3>1, <1>3
  <2>2. Busy(p)' \subseteq inUse[p] \cup {m}
    <3>1. \A d : At(d, p)' => \E u \in Trio : Inside(u)' /\ user'[u].pool = p /\ user'[u].conn = d
      BY <1>1 DEF At
    <3> QED BY <3>1, <1>5, <1>10 DEF Busy
  <2>3. Cardinality(Busy(p)') <= MaxConnections
    <3>1. IsFiniteSet(inUse[p])
      <4>1. inUse[p] \subseteq 1..made
        BY <1>1 DEF PoolInv, PoolTyped
      <4>2. IsFiniteSet(1..made)
        BY <1>2, FS_Interval
      <4> QED BY <4>1, <4>2, FS_Subset
    <3>2. Cardinality(inUse[p]) \in Nat
      BY <3>1, FS_CardinalityType
    <3>3. IsFiniteSet(inUse[p] \cup {m}) /\ Cardinality(inUse[p] \cup {m}) <= Cardinality(inUse[p]) + 1
      <4>1. /\ IsFiniteSet(inUse[p] \cup {m})
            /\ Cardinality(inUse[p] \cup {m})
                 = IF m \in inUse[p] THEN Cardinality(inUse[p]) ELSE Cardinality(inUse[p]) + 1
        BY <3>1, FS_AddElement
      <4> QED BY <3>2, <4>1
    <3>4. Cardinality(inUse[p] \cup {m}) \in Nat
      BY <3>3, FS_CardinalityType
    <3>5. IsFiniteSet(Busy(p)') /\ Cardinality(Busy(p)') <= Cardinality(inUse[p] \cup {m})
      BY <2>2, <3>3, FS_Subset
    <3>6. Cardinality(Busy(p)') \in Nat
      BY <3>5, FS_CardinalityType
    <3>7. MaxConnections \in Nat
      BY PartsAssumption
    <3> QED BY <3>2, <3>3, <3>4, <3>5, <3>6, <3>7
  <2>4. \A q \in Pool!Pools : Cardinality(Busy(q)') <= MaxConnections
    <3> TAKE q \in Pool!Pools
    <3>1. CASE q = p
      BY <2>3, <3>1
    <3>2. CASE q # p
      BY <2>1, <3>2, NoneAdded
    <3> QED BY <3>1, <3>2
  <2>5. \A d \in open' : \E q \in Pool!Pools : At(d, q)'
    <3> TAKE d \in open'
    <3>1. CASE d = m
      <4>1. At(d, p)'
        BY <3>1, <1>4 DEF At, Inside
      <4> QED BY <4>1, <1>1
    <3>2. CASE d # m
      <4>1. PICK q \in Pool!Pools : At(d, q)
        BY <3>2, <1>3 DEF PoolInv, Limited
      <4>2. CASE \E u \in Trio : Inside(u) /\ user[u].pool = q /\ user[u].conn = d
        BY <4>2, <1>1, <1>4 DEF At, Inside
      <4>3. CASE \E i \in 1..Len(idle[q]) : idle[q][i] = d
        <5>1. q # p
          BY <4>3, <3>2, <1>3
        <5>2. At(d, q)'
          BY <4>3, <5>1, <1>1 DEF At
        <5> QED BY <5>2
      <4> QED BY <4>1, <4>2, <4>3 DEF At
    <3> QED BY <3>1, <3>2
  <2> QED BY <2>4, <2>5 DEF Limited, Pool!Pools
<1> QED BY <1>7, <1>9, <1>11, <1>12 DEF PoolInv

LEMMA MakeInv ==
  ASSUME PoolInv, NEW t \in Trio, Pool!Make(t)
  PROVE  PoolInv'
<1> PICK p \in Nat : p = user[t].pool
  BY DEF PoolInv, PoolTyped
<1> PICK m \in Nat : m = made + 1
  BY DEF PoolInv, PoolTyped
<1>1. \/ /\ Cardinality(inUse[p]) < MaxConnections /\ made' = m
         /\ open' = (open \ Pool!From(idle[p], 1)) \cup {m} /\ answers' = answers \cup {m}
         /\ inUse' = [inUse EXCEPT ![p] = @ \cup {m}]
         /\ user' = [user EXCEPT ![t] = [at |-> "inside", pool |-> p, conn |-> m]]
      \/ /\ open' = open \ Pool!From(idle[p], 1) /\ user' = [user EXCEPT ![t] = Pool!Outside]
         /\ UNCHANGED <<made, answers, inUse>>
  BY SameCount DEF Pool!Make, Pool!Move
<1>2. CASE made' = m /\ Cardinality(inUse[p]) < MaxConnections
  <2>1. m # made
    BY DEF PoolInv, PoolTyped
  <2> QED BY <1>1, <1>2, <2>1, OneMadeInv
<1>3. CASE made' = made
  <2>1. m # made
    BY DEF PoolInv, PoolTyped
  <2> QED BY <1>1, <1>3, <2>1, NoneMadeInv
<1> QED BY <1>1, <1>2, <1>3

(* The server ends a session; the process ends.                             *)
LEMMA LoseConnectionInv ==
  ASSUME PoolInv, NEW c \in open, Pool!LoseConnection(c)
  PROVE  PoolInv'
<1>1. answers' = answers \ {c} /\ UNCHANGED <<current, pools, idle, inUse, shut, made, open, user>>
  BY DEF Pool!LoseConnection
<1>2. PoolTyped'
  BY <1>1 DEF PoolInv, PoolTyped, Pool!Pools
<1>3. Counted'
  BY <1>1 DEF PoolInv, Counted, Inside, Pool!Pools
<1>4. NoNewEntry
  BY <1>1 DEF NoNewEntry
<1>5. \A d \in open', q \in Pool!Pools : At(d, q) => At(d, q)'
  BY <1>1 DEF At, Inside
<1> QED BY <1>1, <1>2, <1>3, <1>4, <1>5, FewerInv

LEMMA PoolRestartInv ==
  ASSUME Pool!Restart
  PROVE  PoolInv'
<1>1. MaxPools \in Nat /\ MaxConnections \in Nat
  BY PartsAssumption
<1>2. /\ current' = 0 /\ pools' = 0 /\ made' = 0 /\ open' = {} /\ answers' = {}
      /\ \A t \in Trio : user'[t].at = "outside"
  BY DEF Pool!Restart, Pool!Outside
<1>3. idle' \in [Pool!Pools -> Seq(Nat)] /\ \A p \in Pool!Pools : idle'[p] = <<>> /\ Len(idle'[p]) = 0 /\ ~shut'[p]
  BY DEF Pool!Restart
<1>4. PoolTyped'
  <2>1. inUse' \in [Pool!Pools -> SUBSET (1..0)] /\ shut' \in [Pool!Pools -> BOOLEAN]
    BY DEF Pool!Restart
  <2>2. user' \in [Trio -> [at : {"outside", "entered", "passed", "inside"}, pool : 0..0, conn : Nat]]
    BY DEF Pool!Restart, Pool!Outside
  <2> QED BY <1>1, <1>2, <1>3, <2>1, <2>2 DEF PoolTyped, Pool!Pools
<1>5. Numbered' /\ Apart' /\ Counted'
  BY <1>2, <1>3 DEF Numbered, Apart, Counted, Inside, Pool!Pools
<1>6. Limited'
  <2>1. \A p \in Pool!Pools : Busy(p)' = {}
    BY <1>2 DEF Busy
  <2>2. Cardinality({}) <= MaxConnections
    BY <1>1, FS_EmptySet
  <2> QED BY <1>2, <2>1, <2>2 DEF Limited, Pool!Pools
<1> QED BY <1>4, <1>5, <1>6 DEF PoolInv

LEMMA PoolNext == PoolInv /\ [Pool!Next]_pooling => PoolInv'
<1> SUFFICES ASSUME PoolInv, [Pool!Next]_pooling
             PROVE  PoolInv'
  OBVIOUS
<1>1. CASE UNCHANGED pooling
  <2>1. UNCHANGED <<current, pools, idle, inUse, shut, made, open, answers, user>>
    BY <1>1 DEF pooling
  <2>2. PoolTyped'
    BY <2>1 DEF PoolInv, PoolTyped, Pool!Pools
  <2>3. Counted'
    BY <2>1 DEF PoolInv, Counted, Inside, Pool!Pools
  <2>4. NoNewEntry
    BY <2>1 DEF NoNewEntry
  <2>5. \A d \in open', q \in Pool!Pools : At(d, q) => At(d, q)'
    BY <2>1 DEF At, Inside
  <2> QED BY <2>1, <2>2, <2>3, <2>4, <2>5, FewerInv
<1>2. ASSUME NEW t \in Trio, Pool!Enter(t) \/ Pool!SeeClosed(t) PROVE PoolInv'
  BY <1>2, LookInv, NewPoolInv
<1>3. ASSUME NEW t \in Trio, Pool!Reuse(t) \/ Pool!Make(t) \/ Pool!Release(t) PROVE PoolInv'
  BY <1>3, ReuseInv, MakeInv, ReleaseInv
<1>4. CASE Pool!CloseAll
  BY <1>4, CloseAllInv
<1>5. ASSUME NEW c \in open, Pool!LoseConnection(c) PROVE PoolInv'
  BY <1>5, LoseConnectionInv
<1>6. CASE Pool!Restart
  BY <1>6, PoolRestartInv
<1> QED BY <1>1, <1>2, <1>3, <1>4, <1>5, <1>6 DEF Pool!Next

(* A list without repetition has as many elements as it is long.            *)
LEMMA ListCounts ==
  ASSUME NEW s \in Seq(Nat), \A i, j \in 1..Len(s) : s[i] = s[j] => i = j
  PROVE  Cardinality({s[j] : j \in 1..Len(s)}) = Len(s)
<1> DEFINE T == {s[j] : j \in 1..Len(s)}
<1>1. Len(s) \in Nat /\ s \in [1..Len(s) -> T]
  BY LenProperties
<1>2. s \in Bijection(1..Len(s), T)
  <2>1. s \in Injection(1..Len(s), T)
    BY <1>1 DEF Injection, IsInjective
  <2>2. \A x \in T : \E j \in 1..Len(s) : s[j] = x
    OBVIOUS
  <2>3. s \in Surjection(1..Len(s), T)
    BY <1>1, <2>2 DEF Surjection
  <2> QED BY <2>1, <2>3 DEF Bijection
<1>3. ExistsBijection(1..Len(s), T)
  BY <1>2 DEF ExistsBijection
<1> HIDE DEF T
<1> QED BY <1>1, <1>3, FS_CountingElements DEF T

LEMMA PoolSafe == PoolInv => Pool!PoolKeepsCount
<1> SUFFICES ASSUME PoolInv PROVE Pool!PoolKeepsCount
  OBVIOUS
<1>1. \A t, u \in Trio :
        t # u /\ user[t].at = "inside" /\ user[u].at = "inside" => user[t].conn # user[u].conn
  BY DEF PoolInv, Apart, Inside
<1>2. \A p \in Pool!Pools : \A c : c \in Pool!Held(p) \cup Pool!Idle(p) <=> At(c, p)
  BY DEF Pool!Held, Pool!Idle, Pool!From, At, Inside
<1>3. ASSUME NEW p \in Pool!Pools
      PROVE  /\ Pool!Held(p) \cap Pool!Idle(p) = {} /\ Cardinality(Pool!Idle(p)) = Len(idle[p])
             /\ Cardinality(open \cap (Pool!Held(p) \cup Pool!Idle(p))) <= MaxConnections
             /\ shut[p] => Pool!Idle(p) = {}
  <2>1. Pool!Held(p) \cap Pool!Idle(p) = {}
    BY DEF PoolInv, Apart, Inside, Pool!Held, Pool!Idle, Pool!From
  <2>2. Cardinality(Pool!Idle(p)) = Len(idle[p])
    <3>1. idle[p] \in Seq(Nat)
      BY DEF PoolInv, PoolTyped
    <3>2. \A i, j \in 1..Len(idle[p]) : idle[p][i] = idle[p][j] => i = j
      BY DEF PoolInv, Apart
    <3> QED BY <3>1, <3>2, ListCounts DEF Pool!Idle, Pool!From
  <2>3. open \cap (Pool!Held(p) \cup Pool!Idle(p)) = Busy(p)
    BY <1>2 DEF Busy
  <2>4. Cardinality(Busy(p)) <= MaxConnections
    BY DEF PoolInv, Limited
  <2>5. shut[p] => Pool!Idle(p) = {}
    <3>1. shut[p] => idle[p] = <<>>
      BY DEF PoolInv, Counted
    <3> QED BY <3>1 DEF Pool!Idle, Pool!From
  <2> QED BY <2>1, <2>2, <2>3, <2>4, <2>5
<1>4. open \subseteq UNION {Pool!Held(p) \cup Pool!Idle(p) : p \in Pool!Pools}
  <2> SUFFICES ASSUME NEW c \in open
               PROVE  \E p \in Pool!Pools : c \in Pool!Held(p) \cup Pool!Idle(p)
    OBVIOUS
  <2>1. PICK p \in Pool!Pools : At(c, p)
    BY DEF PoolInv, Limited
  <2> QED BY <2>1, <1>2
<1> QED BY <1>1, <1>3, <1>4, SameCount DEF Pool!PoolKeepsCount

-----------------------------------------------------------------------------
(* The message queue.  A message is in one place: in the buffer, in the     *)
(* hand of a thread, or with the handlers that were called.  The buffer has *)
(* the messages of one publisher in their order, and none that is older     *)
(* than what a loop took off; so a later message overtakes an earlier one   *)
(* only outside the buffer, or between two loops.                           *)
Messages == Publishers \X Nat
Elems(s) == {s[i] : i \in 1..Len(s)}
Called(h) == Elems(calls[h])
Holding(t) == thread[t].at \in {"taken", "calling"}
Newer(m, f) == f[1] = m[1] /\ f[2] > m[2]
Known == {m \in Messages : m[2] <= sent[m[1]]}
Walking == [at : {"none", "head", "looked", "taken", "calling"}, msg : Messages \cup {<<>>}, rest : SUBSET Workers]

QueueTyped ==
  /\ sent \in [Publishers -> Nat]
  /\ buffer \in Seq(Messages) /\ Elems(buffer) \subseteq Known
  /\ direct \subseteq Known
  /\ calls \in [Workers -> Seq(Messages)] /\ \A h \in Workers : Called(h) \subseteq Known
  /\ doubled \in BOOLEAN /\ subscribers \subseteq Workers
  /\ thread \in [Queue!Threads -> Walking]

Hands ==
  /\ \A t \in Queue!Threads : Holding(t) => thread[t].msg \in Known
  /\ \A t \in Queue!Threads : ~Holding(t) => thread[t].msg = <<>> /\ thread[t].rest = {}
  /\ \A p \in Publishers : Holding(p) => thread[p].msg = <<p, sent[p]>> /\ thread[p].msg \in direct
  /\ \A l \in Pair : Holding(l) => thread[l].msg \notin direct
  /\ \A l, k \in Pair : l # k /\ Holding(l) /\ Holding(k) => thread[l].msg # thread[k].msg
  /\ \A l, k \in Pair : l # k /\ thread[l].at # "none" /\ thread[k].at # "none" => doubled

Line ==
  /\ \A j \in 1..Len(buffer) : \A i \in 1..(j - 1) :
       buffer[i][1] = buffer[j][1] => buffer[i][2] < buffer[j][2]
  /\ \A m \in Elems(buffer) : m \notin direct
  /\ \A m \in Elems(buffer) : \A l \in Pair :
       Holding(l) /\ thread[l].msg[1] = m[1] => thread[l].msg[2] < m[2]
  /\ \A m \in Elems(buffer) : \A h \in Workers : m \notin Called(h)
  /\ \A m \in Elems(buffer) : \A h \in Workers : \A f \in Called(h) : Newer(m, f) => f \in direct

CallsFollow ==
  /\ \A t \in Queue!Threads : thread[t].at = "taken" => \A h \in Workers : thread[t].msg \notin Called(h)
  /\ \A t \in Queue!Threads : \A h \in thread[t].rest : thread[t].msg \notin Called(h)
  /\ \A l \in Pair : Holding(l) =>
       \A h \in Workers : \A f \in Called(h) : Newer(thread[l].msg, f) => f \in direct \/ doubled

QueueInv == QueueTyped /\ Hands /\ Line /\ CallsFollow /\ Queue!OncePerHandlerInOrder

LEMMA ElemsAppend ==
  ASSUME NEW S, NEW s \in Seq(S), NEW e \in S
  PROVE  Elems(Append(s, e)) = Elems(s) \cup {e}
<1>1. /\ Len(Append(s, e)) = Len(s) + 1 /\ \A i \in 1..Len(s) : Append(s, e)[i] = s[i]
      /\ Append(s, e)[Len(s) + 1] = e /\ Len(s) \in Nat
  BY AppendProperties
<1>2. ASSUME NEW x \in Elems(Append(s, e)) PROVE x \in Elems(s) \cup {e}
  <2>1. PICK i \in 1..(Len(s) + 1) : x = Append(s, e)[i]
    BY <1>1, <1>2 DEF Elems
  <2>2. CASE i = Len(s) + 1
    BY <2>1, <2>2, <1>1
  <2>3. CASE i # Len(s) + 1
    <3>1. i \in 1..Len(s)
      BY <2>3, <1>1
    <3> QED BY <3>1, <2>1, <1>1 DEF Elems
  <2> QED BY <2>2, <2>3
<1>3. Elems(s) \subseteq Elems(Append(s, e))
  <2> SUFFICES ASSUME NEW i \in 1..Len(s) PROVE s[i] \in Elems(Append(s, e))
    BY DEF Elems
  <2>1. i \in 1..Len(Append(s, e)) /\ Append(s, e)[i] = s[i]
    BY <1>1
  <2> QED BY <2>1 DEF Elems
<1>4. e \in Elems(Append(s, e))
  <2>1. Len(s) + 1 \in 1..Len(Append(s, e))
    BY <1>1
  <2> QED BY <2>1, <1>1 DEF Elems
<1> QED BY <1>2, <1>3, <1>4

LEMMA ElemsTail ==
  ASSUME NEW S, NEW s \in Seq(S), s # <<>>
  PROVE  /\ Head(s) \in Elems(s) /\ Head(s) = s[1] /\ Len(s) \in Nat \ {0}
         /\ Tail(s) \in Seq(S) /\ Len(Tail(s)) = Len(s) - 1 /\ Elems(Tail(s)) \subseteq Elems(s)
         /\ \A i \in 1..Len(Tail(s)) : i + 1 \in 2..Len(s) /\ Tail(s)[i] = s[i + 1]
<1>1. Len(s) \in Nat \ {0} /\ Head(s) = s[1]
  BY EmptySeq
<1>2. /\ Tail(s) \in Seq(S) /\ Len(Tail(s)) = Len(s) - 1
      /\ \A i \in 1..Len(Tail(s)) : Tail(s)[i] = s[i + 1]
  BY HeadTailProperties
<1>3. \A i \in 1..Len(Tail(s)) : i + 1 \in 2..Len(s)
  BY <1>1, <1>2
<1>4. Elems(Tail(s)) \subseteq Elems(s)
  <2> SUFFICES ASSUME NEW i \in 1..Len(Tail(s)) PROVE Tail(s)[i] \in Elems(s)
    BY DEF Elems
  <2>1. i + 1 \in 1..Len(s) /\ Tail(s)[i] = s[i + 1]
    BY <1>1, <1>2, <1>3
  <2> QED BY <2>1 DEF Elems
<1>5. Head(s) \in Elems(s)
  BY <1>1 DEF Elems
<1> QED BY <1>1, <1>2, <1>3, <1>4, <1>5

LEMMA QueueInit == Queue!Init => QueueInv
<1> SUFFICES ASSUME Queue!Init PROVE QueueInv
  OBVIOUS
<1> USE DEF Queue!Init
<1>1. /\ buffer = <<>> /\ Elems(buffer) = {} /\ Len(buffer) = 0 /\ direct = {}
      /\ \A h \in Workers : calls[h] = <<>> /\ Called(h) = {} /\ Len(calls[h]) = 0
  BY DEF Elems, Called
<1>2. \A t \in Queue!Threads : thread[t].at = "none" /\ thread[t].msg = <<>> /\ thread[t].rest = {}
  BY DEF Queue!Idle
<1>3. \A t \in Publishers \cup Pair : t \in Queue!Threads /\ ~Holding(t)
  BY <1>2 DEF Holding, Queue!Threads
<1>4. QueueTyped
  <2>1. buffer \in Seq(Messages) /\ calls \in [Workers -> Seq(Messages)] /\ sent \in [Publishers -> Nat]
    OBVIOUS
  <2>2. thread \in [Queue!Threads -> Walking]
    <3>1. Queue!Idle \in Walking
      BY DEF Queue!Idle, Walking
    <3> QED BY <3>1
  <2> QED BY <1>1, <2>1, <2>2 DEF QueueTyped
<1>5. Hands
  BY <1>2, <1>3 DEF Hands, Holding, Queue!Threads
<1>6. Line /\ CallsFollow
  BY <1>1, <1>2, <1>3 DEF Line, CallsFollow
<1>7. Queue!OncePerHandlerInOrder
  BY <1>1 DEF Queue!OncePerHandlerInOrder
<1> QED BY <1>4, <1>5, <1>6, <1>7 DEF QueueInv

(* A thread moves on.                                                       *)
LEMMA ThreadMoves ==
  ASSUME QueueTyped, NEW t \in Queue!Threads, NEW w \in Walking, thread' = [thread EXCEPT ![t] = w]
  PROVE  /\ thread' \in [Queue!Threads -> Walking] /\ thread'[t] = w
         /\ \A u \in Queue!Threads \ {t} : thread'[u] = thread[u]
<1>1. thread \in [Queue!Threads -> Walking]
  BY DEF QueueTyped
<1> QED BY <1>1

LEMMA ThreadsAre ==
  /\ Publishers \subseteq Queue!Threads /\ Pair \subseteq Queue!Threads
  /\ Publishers \cap Pair = {} /\ \A t \in Queue!Threads : t \in Publishers \/ t \in Pair
BY PartsAssumption DEF Queue!Threads

(* The steps that neither take a message, nor bring one, nor call.          *)
LEMMA ThreadStep ==
  ASSUME QueueInv, NEW t \in Queue!Threads,
         thread' \in [Queue!Threads -> Walking], \A u \in Queue!Threads \ {t} : thread'[u] = thread[u],
         thread'[t].at # "taken", thread'[t].at # "calling" => thread'[t].msg = <<>> /\ thread'[t].rest = {},
         thread'[t].at = "calling" =>
           /\ Holding(t) /\ thread'[t].msg = thread[t].msg
           /\ \A h \in thread'[t].rest : thread'[t].msg \notin Called(h),
         UNCHANGED <<buffer, sent, calls, direct, subscribers>>, doubled' \in BOOLEAN, doubled => doubled',
         t \in Pair /\ thread'[t].at # "none" => \A k \in Pair \ {t} : thread[k].at # "none" => doubled'
  PROVE  QueueInv'
<1>1. /\ thread' \in [Queue!Threads -> Walking]
      /\ \A u \in Queue!Threads \ {t} : thread'[u] = thread[u]
  OBVIOUS
<1>2. \A u \in Queue!Threads : Holding(u)' => Holding(u) /\ thread'[u].msg = thread[u].msg
  <2> TAKE u \in Queue!Threads
  <2>1. CASE u = t
    BY <2>1 DEF Holding
  <2>2. CASE u # t
    BY <2>2, <1>1 DEF Holding
  <2> QED BY <2>1, <2>2
<1>3. Known' = Known /\ Elems(buffer)' = Elems(buffer) /\ \A h \in Workers : Called(h)' = Called(h)
  BY DEF Known, Elems, Called
<1>4. QueueTyped'
  BY <1>1, <1>3 DEF QueueInv, QueueTyped, Queue!Threads
<1>5. Hands'
  <2>1. \A u \in Queue!Threads : Holding(u)' => thread'[u].msg \in Known'
    BY <1>2, <1>3 DEF QueueInv, Hands
  <2>2. \A u \in Queue!Threads : ~Holding(u)' => thread'[u].msg = <<>> /\ thread'[u].rest = {}
    BY <1>1 DEF QueueInv, Hands, Holding
  <2>3. \A p \in Publishers : Holding(p)' => thread'[p].msg = <<p, sent'[p]>> /\ thread'[p].msg \in direct'
    BY <1>2, ThreadsAre DEF QueueInv, Hands
  <2>4. \A l \in Pair : Holding(l)' => thread'[l].msg \notin direct'
    BY <1>2, ThreadsAre DEF QueueInv, Hands
  <2>5. \A l, k \in Pair : l # k /\ Holding(l)' /\ Holding(k)' => thread'[l].msg # thread'[k].msg
    BY <1>2, ThreadsAre DEF QueueInv, Hands
  <2>6. \A l, k \in Pair : l # k /\ thread'[l].at # "none" /\ thread'[k].at # "none" => doubled'
    BY <1>1, ThreadsAre DEF QueueInv, Hands
  <2> QED BY <2>1, <2>2, <2>3, <2>4, <2>5, <2>6 DEF Hands, Queue!Threads
<1>6. Line'
  BY <1>2, <1>3, ThreadsAre DEF QueueInv, Line, Newer
<1>7. CallsFollow'
  <2>1. \A u \in Queue!Threads : thread'[u].at = "taken" => \A h \in Workers : thread'[u].msg \notin Called(h)'
    BY <1>1, <1>3 DEF QueueInv, CallsFollow
  <2>2. \A u \in Queue!Threads : \A h \in thread'[u].rest : thread'[u].msg \notin Called(h)'
    <3> SUFFICES ASSUME NEW u \in Queue!Threads, NEW h \in thread'[u].rest
                 PROVE  thread'[u].msg \notin Called(h)
      BY DEF Called, Elems
    <3>1. CASE u = t
      BY <3>1, <1>1
    <3>2. CASE u # t
      BY <3>2, <1>1 DEF QueueInv, CallsFollow
    <3> QED BY <3>1, <3>2
  <2>3. \A l \in Pair : Holding(l)' =>
          \A h \in Workers : \A f \in Called(h)' : Newer(thread'[l].msg, f) => f \in direct' \/ doubled'
    BY <1>2, <1>3, ThreadsAre DEF QueueInv, CallsFollow, Newer
  <2> QED BY <2>1, <2>2, <2>3 DEF CallsFollow, Queue!Threads, Newer
<1>8. Queue!OncePerHandlerInOrder'
  BY DEF QueueInv, Queue!OncePerHandlerInOrder
<1> QED BY <1>4, <1>5, <1>6, <1>7, <1>8 DEF QueueInv

(* What becomes of a thread's record when a field changes.                  *)
LEMMA FieldMoves ==
  ASSUME NEW w \in Walking, NEW b, NEW c
  PROVE  /\ [w EXCEPT !.at = b] = [at |-> b, msg |-> w.msg, rest |-> w.rest]
         /\ [w EXCEPT !.rest = c] = [at |-> w.at, msg |-> w.msg, rest |-> c]
<1>1. PICK a, m, r : a = w.at /\ m = w.msg /\ r = w.rest
  OBVIOUS
<1>2. w = [at |-> a, msg |-> m, rest |-> r]
  <2>1. w = [at |-> w.at, msg |-> w.msg, rest |-> w.rest]
    BY DEF Walking
  <2> QED BY <2>1, <1>1
<1>3. /\ [[at |-> a, msg |-> m, rest |-> r] EXCEPT !.at = b] = [at |-> b, msg |-> m, rest |-> r]
      /\ [[at |-> a, msg |-> m, rest |-> r] EXCEPT !.rest = c] = [at |-> a, msg |-> m, rest |-> c]
  OBVIOUS
<1>4. /\ [w EXCEPT !.at = b] = [at |-> b, msg |-> m, rest |-> r]
      /\ [w EXCEPT !.rest = c] = [at |-> a, msg |-> m, rest |-> c]
  BY <1>2, <1>3, Zenon
<1> QED BY <1>1, <1>4, Zenon

LEMMA IdleMoves ==
  /\ Queue!Idle = [at |-> "none", msg |-> <<>>, rest |-> {}]
  /\ [Queue!Idle EXCEPT !.at = "head"] = [at |-> "head", msg |-> <<>>, rest |-> {}]
<1>1. Queue!Idle = [at |-> "none", msg |-> <<>>, rest |-> {}]
  BY DEF Queue!Idle
<1>2. Queue!Idle \in Walking
  BY <1>1 DEF Walking
<1>3. [Queue!Idle EXCEPT !.at = "head"] = [at |-> "head", msg |-> Queue!Idle.msg, rest |-> Queue!Idle.rest]
  BY <1>2, FieldMoves, Zenon
<1>4. Queue!Idle.msg = <<>> /\ Queue!Idle.rest = {}
  BY <1>1
<1> QED BY <1>1, <1>3, <1>4, Zenon

LEMMA StartInv ==
  ASSUME QueueInv, Queue!Start
  PROVE  QueueInv'
<1>1. PICK l \in Pair : thread[l] = Queue!Idle /\ thread' = [thread EXCEPT ![l].at = "head"]
  BY DEF Queue!Start
<1>2. thread' = [thread EXCEPT ![l] = [at |-> "head", msg |-> <<>>, rest |-> {}]]
  BY <1>1, IdleMoves, Zenon
<1>3. /\ UNCHANGED <<buffer, sent, calls, direct, subscribers>>
      /\ doubled' \in BOOLEAN /\ (doubled => doubled')
      /\ (\E k \in Pair : thread[k] # Queue!Idle) => doubled'
  BY DEF Queue!Start, QueueInv, QueueTyped
<1>4. \A k \in Pair : thread[k].at # "none" => thread[k] # Queue!Idle
  BY DEF Queue!Idle
<1>5. PICK w \in Walking : w = [at |-> "head", msg |-> <<>>, rest |-> {}]
  BY DEF Walking
<1>6. thread' = [thread EXCEPT ![l] = w] /\ l \in Queue!Threads
  BY <1>2, <1>5, ThreadsAre
<1>7. /\ thread' \in [Queue!Threads -> Walking] /\ thread'[l] = w
      /\ \A u \in Queue!Threads \ {l} : thread'[u] = thread[u]
  BY <1>6, ThreadMoves DEF QueueInv
<1>8. w.at = "head" /\ w.msg = <<>> /\ w.rest = {}
  BY <1>5
<1> QED BY <1>3, <1>4, <1>6, <1>7, <1>8, ThreadStep

(* while self._running; pop_message finds nothing.                          *)
LEMMA LoopInv ==
  ASSUME QueueInv, NEW l \in Pair, Queue!LookAtRunning(l) \/ (Queue!Pop(l) /\ buffer = <<>>)
  PROVE  QueueInv'
<1>1. /\ thread[l].at \in {"head", "looked"} /\ UNCHANGED <<buffer, sent, calls, direct, subscribers, doubled>>
      /\ \/ thread' = [thread EXCEPT ![l].at = "none"]
         \/ thread' = [thread EXCEPT ![l].at = "looked"]
         \/ thread' = [thread EXCEPT ![l] = [Queue!Idle EXCEPT !.at = "head"]]
  BY DEF Queue!LookAtRunning, Queue!Pop
<1>2. thread[l].msg = <<>> /\ thread[l].rest = {} /\ thread[l] \in Walking
  BY <1>1, ThreadsAre DEF QueueInv, QueueTyped, Hands, Holding
<1>3. \A k \in Pair \ {l} : thread[k].at # "none" => doubled
  BY <1>1 DEF QueueInv, Hands
<1>4. /\ [thread[l] EXCEPT !.at = "none"] = [at |-> "none", msg |-> <<>>, rest |-> {}]
      /\ [thread[l] EXCEPT !.at = "looked"] = [at |-> "looked", msg |-> <<>>, rest |-> {}]
  <2>1. /\ [thread[l] EXCEPT !.at = "none"] = [at |-> "none", msg |-> thread[l].msg, rest |-> thread[l].rest]
        /\ [thread[l] EXCEPT !.at = "looked"] = [at |-> "looked", msg |-> thread[l].msg, rest |-> thread[l].rest]
    BY <1>2, FieldMoves, Zenon
  <2> QED BY <1>2, <2>1, Zenon
<1>5. [Queue!Idle EXCEPT !.at = "head"] = [at |-> "head", msg |-> <<>>, rest |-> {}]
  BY IdleMoves
<1>6. \/ thread' = [thread EXCEPT ![l] = [at |-> "none", msg |-> <<>>, rest |-> {}]]
      \/ thread' = [thread EXCEPT ![l] = [at |-> "looked", msg |-> <<>>, rest |-> {}]]
      \/ thread' = [thread EXCEPT ![l] = [at |-> "head", msg |-> <<>>, rest |-> {}]]
  <2>1. CASE thread' = [thread EXCEPT ![l].at = "none"]
    BY <2>1, <1>4, Zenon
  <2>2. CASE thread' = [thread EXCEPT ![l].at = "looked"]
    BY <2>2, <1>4, Zenon
  <2>3. CASE thread' = [thread EXCEPT ![l] = [Queue!Idle EXCEPT !.at = "head"]]
    BY <2>3, <1>5, Zenon
  <2> QED BY <2>1, <2>2, <2>3, <1>1
<1>7. doubled' \in BOOLEAN /\ doubled' = doubled
  BY <1>1 DEF QueueInv, QueueTyped
<1>8. ASSUME NEW place \in {"none", "looked", "head"},
             thread' = [thread EXCEPT ![l] = [at |-> place, msg |-> <<>>, rest |-> {}]]
      PROVE  QueueInv'
  <2>1. PICK w \in Walking : w = [at |-> place, msg |-> <<>>, rest |-> {}]
    BY DEF Walking
  <2>2. thread' = [thread EXCEPT ![l] = w] /\ l \in Queue!Threads
    BY <1>8, <2>1, ThreadsAre
  <2>3. /\ thread' \in [Queue!Threads -> Walking] /\ thread'[l] = w
        /\ \A u \in Queue!Threads \ {l} : thread'[u] = thread[u]
    BY <2>2, ThreadMoves DEF QueueInv
  <2>4. w.at \notin {"taken", "calling"} /\ w.msg = <<>> /\ w.rest = {}
    BY <2>1
  <2> QED BY <1>1, <1>3, <1>7, <2>2, <2>3, <2>4, ThreadStep
<1> QED BY <1>6, <1>8

(* _dispatch copies the handlers; it ends.                                  *)
LEMMA DispatchInv ==
  ASSUME QueueInv, NEW t \in Queue!Threads, Queue!CopyHandlers(t) \/ Queue!Done(t)
  PROVE  QueueInv'
<1>1. /\ Holding(t) /\ UNCHANGED <<buffer, sent, calls, direct, subscribers, doubled>>
      /\ doubled' \in BOOLEAN /\ doubled' = doubled
  BY DEF Queue!CopyHandlers, Queue!Done, Holding, QueueInv, QueueTyped
<1>2. thread[t].msg \in Messages /\ thread[t] \in Walking
  BY <1>1 DEF QueueInv, QueueTyped, Hands, Known
<1>3. t \in Pair => \A k \in Pair \ {t} : thread[k].at # "none" => doubled
  BY <1>1 DEF QueueInv, Hands, Holding
<1>4. CASE Queue!CopyHandlers(t)
  <2>1. thread[t].at = "taken" /\ thread' = [thread EXCEPT ![t] = [[@ EXCEPT !.at = "calling"] EXCEPT !.rest = subscribers]]
    BY <1>4 DEF Queue!CopyHandlers
  <2>2. [[thread[t] EXCEPT !.at = "calling"] EXCEPT !.rest = subscribers]
          = [at |-> "calling", msg |-> thread[t].msg, rest |-> subscribers]
    <3>1. PICK m, r, s : m = thread[t].msg /\ r = thread[t].rest /\ s = subscribers
      OBVIOUS
    <3>2. [thread[t] EXCEPT !.at = "calling"] = [at |-> "calling", msg |-> m, rest |-> r]
      BY <1>2, <3>1, FieldMoves, Zenon
    <3>3. [[at |-> "calling", msg |-> m, rest |-> r] EXCEPT !.rest = s] = [at |-> "calling", msg |-> m, rest |-> s]
      OBVIOUS
    <3> QED BY <3>1, <3>2, <3>3, Zenon
  <2>3. thread' = [thread EXCEPT ![t] = [at |-> "calling", msg |-> thread[t].msg, rest |-> subscribers]]
    BY <2>1, <2>2, Zenon
  <2>4. subscribers \in SUBSET Workers /\ \A h \in subscribers : thread[t].msg \notin Called(h)
    BY <2>1 DEF QueueInv, QueueTyped, CallsFollow
  <2>5. PICK w \in Walking : w = [at |-> "calling", msg |-> thread[t].msg, rest |-> subscribers]
    BY <1>2, <2>4 DEF Walking
  <2>6. thread' = [thread EXCEPT ![t] = w]
    BY <2>3, <2>5
  <2>7. /\ thread' \in [Queue!Threads -> Walking] /\ thread'[t] = w
        /\ \A u \in Queue!Threads \ {t} : thread'[u] = thread[u]
    BY <2>6, ThreadMoves DEF QueueInv
  <2>8. w.at = "calling" /\ w.msg = thread[t].msg /\ w.rest = subscribers
    BY <2>5
  <2> QED BY <1>1, <1>3, <2>4, <2>7, <2>8, ThreadStep
<1>5. CASE Queue!Done(t)
  <2>1. \/ thread' = [thread EXCEPT ![t] = [Queue!Idle EXCEPT !.at = "head"]]
        \/ thread' = [thread EXCEPT ![t] = Queue!Idle]
    BY <1>5 DEF Queue!Done
  <2>2. /\ [Queue!Idle EXCEPT !.at = "head"] = [at |-> "head", msg |-> <<>>, rest |-> {}]
        /\ Queue!Idle = [at |-> "none", msg |-> <<>>, rest |-> {}]
    BY IdleMoves
  <2>3. \/ thread' = [thread EXCEPT ![t] = [at |-> "head", msg |-> <<>>, rest |-> {}]]
        \/ thread' = [thread EXCEPT ![t] = [at |-> "none", msg |-> <<>>, rest |-> {}]]
    BY <2>1, <2>2, Zenon
  <2>4. ASSUME NEW place \in {"none", "head"},
               thread' = [thread EXCEPT ![t] = [at |-> place, msg |-> <<>>, rest |-> {}]]
        PROVE  QueueInv'
    <3>1. PICK w \in Walking : w = [at |-> place, msg |-> <<>>, rest |-> {}]
      BY DEF Walking
    <3>2. thread' = [thread EXCEPT ![t] = w]
      BY <2>4, <3>1
    <3>3. /\ thread' \in [Queue!Threads -> Walking] /\ thread'[t] = w
          /\ \A u \in Queue!Threads \ {t} : thread'[u] = thread[u]
      BY <3>2, ThreadMoves DEF QueueInv
    <3>4. w.at \notin {"taken", "calling"} /\ w.msg = <<>> /\ w.rest = {}
      BY <3>1
    <3> QED BY <1>1, <1>3, <3>3, <3>4, ThreadStep
  <2> QED BY <2>3, <2>4
<1> QED BY <1>4, <1>5

(* subscribe, unsubscribe, stop.                                            *)
LEMMA AsideInv ==
  ASSUME QueueInv, subscribers' \in SUBSET Workers,
         UNCHANGED <<buffer, thread, sent, calls, direct, doubled>>
  PROVE  QueueInv'
<1>1. Known' = Known /\ Elems(buffer)' = Elems(buffer) /\ \A h \in Workers : Called(h)' = Called(h)
  BY DEF Known, Elems, Called
<1>2. QueueTyped'
  BY <1>1 DEF QueueInv, QueueTyped, Queue!Threads
<1>3. Hands'
  BY <1>1 DEF QueueInv, Hands, Holding, Queue!Threads
<1>4. Line'
  BY <1>1 DEF QueueInv, Line, Holding, Newer
<1>5. CallsFollow'
  <2>1. CallsFollow /\ thread' = thread /\ direct' = direct /\ doubled' = doubled
    BY DEF QueueInv
  <2>2. \A t \in Queue!Threads : thread'[t].at = "taken" => \A h \in Workers : thread'[t].msg \notin Called(h)'
    BY <1>1, <2>1 DEF CallsFollow
  <2>3. \A t \in Queue!Threads : \A h \in thread'[t].rest : thread'[t].msg \notin Called(h)'
    <3> SUFFICES ASSUME NEW t \in Queue!Threads, NEW h \in thread[t].rest
                 PROVE  thread[t].msg \notin Called(h)'
      BY <2>1
    <3>1. thread[t].msg \notin Called(h)
      BY <2>1 DEF CallsFollow
    <3>2. Called(h)' = Called(h)
      BY DEF Called, Elems
    <3> QED BY <3>1, <3>2
  <2>4. \A l \in Pair : Holding(l)' =>
          \A h \in Workers : \A f \in Called(h)' : Newer(thread'[l].msg, f) => f \in direct' \/ doubled'
    BY <1>1, <2>1 DEF CallsFollow, Holding
  <2> QED BY <2>2, <2>3, <2>4 DEF CallsFollow, Queue!Threads, Newer
<1>6. Queue!OncePerHandlerInOrder'
  BY DEF QueueInv, Queue!OncePerHandlerInOrder
<1> QED BY <1>2, <1>3, <1>4, <1>5, <1>6 DEF QueueInv

(* publish: a new message has a number that none has yet.                   *)
LEMMA NewMessage ==
  ASSUME QueueInv, NEW p \in Publishers, sent' = [sent EXCEPT ![p] = @ + 1]
  PROVE  /\ sent' \in [Publishers -> Nat] /\ sent[p] \in Nat /\ sent'[p] = sent[p] + 1
         /\ \A q \in Publishers \ {p} : sent'[q] = sent[q]
         /\ <<p, sent[p] + 1>> \in Known' /\ <<p, sent[p] + 1>> \in Messages /\ Known \subseteq Known'
         /\ \A f \in Known : f # <<p, sent[p] + 1>> /\ (f[1] = p => f[2] < sent[p] + 1)
<1>1. /\ sent' \in [Publishers -> Nat] /\ sent[p] \in Nat /\ sent'[p] = sent[p] + 1
      /\ \A q \in Publishers \ {p} : sent'[q] = sent[q]
  BY DEF QueueInv, QueueTyped
<1>2. <<p, sent[p] + 1>> \in Messages /\ <<p, sent[p] + 1>> \in Known'
  BY <1>1 DEF Messages, Known
<1>3. \A f \in Known : f[1] \in Publishers /\ f[2] \in Nat /\ f[2] <= sent[f[1]] /\ sent[f[1]] \in Nat
  BY DEF Known, Messages, QueueInv, QueueTyped
<1>4. Known \subseteq Known'
  <2> SUFFICES ASSUME NEW f \in Known PROVE f[2] <= sent'[f[1]]
    BY DEF Known
  <2>1. CASE f[1] = p
    BY <2>1, <1>1, <1>3
  <2>2. CASE f[1] # p
    BY <2>2, <1>1, <1>3
  <2> QED BY <2>1, <2>2
<1>5. \A f \in Known : f # <<p, sent[p] + 1>> /\ (f[1] = p => f[2] < sent[p] + 1)
  <2> TAKE f \in Known
  <2>1. f[1] = p => f[2] < sent[p] + 1
    BY <1>1, <1>3
  <2>2. f = <<p, sent[p] + 1>> => f[1] = p /\ f[2] = sent[p] + 1
    OBVIOUS
  <2> QED BY <2>1, <2>2, <1>1
<1> QED BY <1>1, <1>2, <1>4, <1>5

LEMMA PublishBuffered ==
  ASSUME QueueInv, NEW p \in Publishers, Queue!Publish(p), running
  PROVE  QueueInv'
<1> PICK m \in Messages : m = <<p, sent[p] + 1>>
  <2>1. sent[p] \in Nat
    BY DEF QueueInv, QueueTyped
  <2>2. <<p, sent[p] + 1>> \in Messages
    BY <2>1 DEF Messages
  <2> QED BY <2>2
<1>0. m[1] = p /\ m[2] = sent[p] + 1
  OBVIOUS
<1>1. /\ thread[p] = Queue!Idle /\ sent' = [sent EXCEPT ![p] = @ + 1] /\ buffer' = Append(buffer, m)
      /\ UNCHANGED <<thread, direct, subscribers, calls, doubled>>
  BY DEF Queue!Publish
<1>2. /\ sent' \in [Publishers -> Nat] /\ sent[p] \in Nat
      /\ \A q \in Publishers \ {p} : sent'[q] = sent[q]
      /\ m \in Known' /\ Known \subseteq Known'
      /\ \A f \in Known : f # m /\ (f[1] = p => f[2] < m[2])
  BY <1>0, <1>1, NewMessage
<1>3. /\ buffer \in Seq(Messages) /\ buffer' \in Seq(Messages) /\ Elems(buffer)' = Elems(buffer) \cup {m}
      /\ Len(buffer') = Len(buffer) + 1 /\ buffer'[Len(buffer) + 1] = m
      /\ Len(buffer) \in Nat /\ \A i \in 1..Len(buffer) : buffer'[i] = buffer[i] /\ buffer[i] \in Elems(buffer)
  <2>1. buffer \in Seq(Messages)
    BY DEF QueueInv, QueueTyped
  <2>2. Elems(Append(buffer, m)) = Elems(buffer) \cup {m}
    BY <2>1, ElemsAppend
  <2>3. Elems(buffer)' = Elems(buffer')
    BY DEF Elems
  <2>4. \A i \in 1..Len(buffer) : buffer[i] \in Elems(buffer)
    BY DEF Elems
  <2>5. /\ Append(buffer, m) \in Seq(Messages) /\ Len(Append(buffer, m)) = Len(buffer) + 1
        /\ Append(buffer, m)[Len(buffer) + 1] = m /\ \A i \in 1..Len(buffer) : Append(buffer, m)[i] = buffer[i]
    BY <2>1, AppendProperties
  <2>6. Len(buffer) \in Nat
    BY <2>1, LenProperties
  <2> QED BY <1>1, <2>1, <2>2, <2>3, <2>4, <2>5, <2>6, Zenon
<1>4. /\ Elems(buffer) \subseteq Known /\ direct \subseteq Known /\ \A h \in Workers : Called(h)' = Called(h) /\ Called(h) \subseteq Known
      /\ \A t \in Queue!Threads : Holding(t) => thread[t].msg \in Known
  BY <1>1 DEF QueueInv, QueueTyped, Hands, Called, Elems
<1>5. \A t \in Queue!Threads : Holding(t)' = Holding(t)
  BY <1>1 DEF Holding
<1>6. QueueTyped'
  <2>1. Elems(buffer)' \subseteq Known' /\ direct' \subseteq Known' /\ \A h \in Workers : Called(h)' \subseteq Known'
    BY <1>1, <1>2, <1>3, <1>4
  <2> QED BY <1>1, <1>2, <1>3, <2>1 DEF QueueInv, QueueTyped, Queue!Threads
<1>7. Hands'
  <2>1. ~Holding(p)
    BY <1>1 DEF Holding, Queue!Idle
  <2>2. \A q \in Publishers : Holding(q)' => thread'[q].msg = <<q, sent'[q]>> /\ thread'[q].msg \in direct'
    BY <2>1, <1>1, <1>2, <1>5, ThreadsAre DEF QueueInv, Hands
  <2>3. \A t \in Queue!Threads : Holding(t)' => thread'[t].msg \in Known'
    BY <1>1, <1>2, <1>4, <1>5
  <2> QED BY <2>2, <2>3, <1>1, <1>5, ThreadsAre DEF QueueInv, Hands, Queue!Threads
<1>8. Line'
  <2>1. \A j \in 1..Len(buffer') : \A i \in 1..(j - 1) :
          buffer'[i][1] = buffer'[j][1] => buffer'[i][2] < buffer'[j][2]
    <3> SUFFICES ASSUME NEW j \in 1..Len(buffer'), NEW i \in 1..(j - 1), buffer'[i][1] = buffer'[j][1]
                 PROVE  buffer'[i][2] < buffer'[j][2]
      OBVIOUS
    <3>1. i \in 1..Len(buffer) /\ (j # Len(buffer) + 1 => j \in 1..Len(buffer))
      BY <1>3
    <3>2. CASE j = Len(buffer) + 1
      BY <3>1, <3>2, <1>0, <1>2, <1>3, <1>4
    <3>3. CASE j # Len(buffer) + 1
      BY <3>1, <3>3, <1>3 DEF QueueInv, Line
    <3> QED BY <3>2, <3>3
  <2>2. \A b \in Elems(buffer)' : b \notin direct'
    BY <1>1, <1>2, <1>3, <1>4 DEF QueueInv, Line
  <2>3. \A b \in Elems(buffer)' : \A l \in Pair :
          Holding(l)' /\ thread'[l].msg[1] = b[1] => thread'[l].msg[2] < b[2]
    <3> SUFFICES ASSUME NEW b \in Elems(buffer)', NEW l \in Pair, Holding(l), thread[l].msg[1] = b[1]
                 PROVE  thread[l].msg[2] < b[2]
      BY <1>1, <1>5, ThreadsAre
    <3>1. thread[l].msg \in Known
      BY <1>4, ThreadsAre
    <3>2. CASE b = m
      BY <3>1, <3>2, <1>0, <1>2
    <3>3. CASE b # m
      BY <3>3, <1>3 DEF QueueInv, Line
    <3> QED BY <3>2, <3>3
  <2>4. \A b \in Elems(buffer)' : \A h \in Workers : b \notin Called(h)'
    BY <1>2, <1>3, <1>4 DEF QueueInv, Line
  <2>5. \A b \in Elems(buffer)' : \A h \in Workers : \A f \in Called(h)' : Newer(b, f)' => f \in direct'
    <3> SUFFICES ASSUME NEW b \in Elems(buffer)', NEW h \in Workers, NEW f \in Called(h), Newer(b, f)
                 PROVE  f \in direct
      BY <1>1, <1>4 DEF Newer
    <3>1. CASE b = m
      <4>1. f[1] = p /\ f[2] > m[2]
        BY <3>1, <1>0 DEF Newer
      <4>2. f \in Known /\ f[2] < m[2]
        BY <4>1, <1>2, <1>4
      <4>3. f[2] \in Nat /\ m[2] \in Nat
        BY <4>2 DEF Known, Messages
      <4> QED BY <4>1, <4>2, <4>3
    <3>2. CASE b # m
      BY <3>2, <1>3 DEF QueueInv, Line
    <3> QED BY <3>1, <3>2
  <2> QED BY <2>1, <2>2, <2>3, <2>4, <2>5 DEF Line
<1>9. CallsFollow'
  <2>1. CallsFollow /\ thread' = thread /\ direct' = direct /\ doubled' = doubled
    BY <1>1 DEF QueueInv
  <2>2. \A t \in Queue!Threads : thread'[t].at = "taken" => \A h \in Workers : thread'[t].msg \notin Called(h)'
    BY <1>4, <2>1 DEF CallsFollow
  <2>3. \A t \in Queue!Threads : \A h \in thread'[t].rest : thread'[t].msg \notin Called(h)'
    <3> SUFFICES ASSUME NEW t \in Queue!Threads, NEW h \in thread[t].rest
                 PROVE  thread[t].msg \notin Called(h)'
      BY <2>1
    <3>1. thread[t].msg \notin Called(h)
      BY <2>1 DEF CallsFollow
    <3>2. Called(h)' = Called(h)
      BY <1>1 DEF Called, Elems
    <3> QED BY <3>1, <3>2
  <2>4. \A l \in Pair : Holding(l)' =>
          \A h \in Workers : \A f \in Called(h)' : Newer(thread'[l].msg, f) => f \in direct' \/ doubled'
    <3> SUFFICES ASSUME NEW l \in Pair, Holding(l), NEW h \in Workers, NEW f \in Called(h), Newer(thread[l].msg, f)
                 PROVE  f \in direct \/ doubled
      BY <1>4, <1>5, <2>1, ThreadsAre DEF Newer
    <3> QED BY <2>1 DEF CallsFollow
  <2> QED BY <2>2, <2>3, <2>4 DEF CallsFollow, Queue!Threads, Newer
<1>10. Queue!OncePerHandlerInOrder'
  BY <1>1 DEF QueueInv, Queue!OncePerHandlerInOrder
<1> QED BY <1>6, <1>7, <1>8, <1>9, <1>10 DEF QueueInv


(* publish while the queue is stopped: the publisher calls the handlers.    *)
LEMMA PublishDirect ==
  ASSUME QueueInv, NEW p \in Publishers, Queue!Publish(p), ~running
  PROVE  QueueInv'
<1> PICK m \in Messages : m = <<p, sent[p] + 1>>
  <2>1. sent[p] \in Nat
    BY DEF QueueInv, QueueTyped
  <2>2. <<p, sent[p] + 1>> \in Messages
    BY <2>1 DEF Messages
  <2> QED BY <2>2
<1>1. /\ sent' = [sent EXCEPT ![p] = @ + 1] /\ direct' = direct \cup {m}
      /\ thread' = [thread EXCEPT ![p] = [at |-> "taken", msg |-> m, rest |-> {}]]
      /\ UNCHANGED <<buffer, subscribers, calls, doubled>>
  BY DEF Queue!Publish, Queue!Take
<1>2. /\ sent' \in [Publishers -> Nat] /\ m = <<p, sent'[p]>>
      /\ \A q \in Publishers \ {p} : sent'[q] = sent[q]
      /\ m \in Known' /\ Known \subseteq Known' /\ m \notin Known
  BY <1>1, NewMessage
<1>3. p \in Queue!Threads /\ p \notin Pair /\ \A l \in Pair : l \in Queue!Threads \ {p}
  BY ThreadsAre
<1>4. /\ thread' \in [Queue!Threads -> Walking]
      /\ thread'[p].at = "taken" /\ thread'[p].msg = m /\ thread'[p].rest = {}
      /\ \A u \in Queue!Threads \ {p} : thread'[u] = thread[u]
  <2>1. PICK w \in Walking : w = [at |-> "taken", msg |-> m, rest |-> {}]
    BY DEF Walking
  <2>2. thread' = [thread EXCEPT ![p] = w]
    BY <1>1, <2>1
  <2> QED BY <1>3, <2>1, <2>2, ThreadMoves DEF QueueInv
<1>5. Elems(buffer)' = Elems(buffer) /\ \A h \in Workers : Called(h)' = Called(h)
  BY <1>1 DEF Elems, Called
<1>6. /\ Elems(buffer) \subseteq Known /\ direct \subseteq Known /\ \A h \in Workers : Called(h) \subseteq Known
      /\ \A t \in Queue!Threads : Holding(t) => thread[t].msg \in Known
  BY DEF QueueInv, QueueTyped, Hands
<1>7. Holding(p)' /\ \A u \in Queue!Threads \ {p} : Holding(u)' = Holding(u)
  BY <1>4 DEF Holding
<1>8. QueueTyped'
  <2>1. Elems(buffer)' \subseteq Known' /\ direct' \subseteq Known' /\ \A h \in Workers : Called(h)' \subseteq Known'
    BY <1>1, <1>2, <1>5, <1>6
  <2> QED BY <1>1, <1>2, <1>4, <2>1 DEF QueueInv, QueueTyped, Queue!Threads
<1>9. Hands'
  <2>1. \A t \in Queue!Threads : Holding(t)' => thread'[t].msg \in Known'
    BY <1>2, <1>4, <1>6, <1>7
  <2>2. \A t \in Queue!Threads : ~Holding(t)' => thread'[t].msg = <<>> /\ thread'[t].rest = {}
    BY <1>4, <1>7 DEF QueueInv, Hands
  <2>3. \A q \in Publishers : Holding(q)' => thread'[q].msg = <<q, sent'[q]>> /\ thread'[q].msg \in direct'
    <3> TAKE q \in Publishers
    <3>1. CASE q = p
      BY <3>1, <1>1, <1>2, <1>4
    <3>2. CASE q # p
      BY <3>2, <1>1, <1>2, <1>4, <1>7, ThreadsAre DEF QueueInv, Hands
    <3> QED BY <3>1, <3>2
  <2>4. \A l \in Pair : Holding(l)' => thread'[l].msg \notin direct'
    <3> SUFFICES ASSUME NEW l \in Pair, Holding(l) PROVE thread[l].msg \notin direct'
      BY <1>3, <1>4, <1>7
    <3>1. thread[l].msg # m
      BY <1>2, <1>3, <1>6
    <3>2. thread[l].msg \notin direct
      BY DEF QueueInv, Hands
    <3> QED BY <3>1, <3>2, <1>1
  <2>5. \A l, k \in Pair : l # k /\ Holding(l)' /\ Holding(k)' => thread'[l].msg # thread'[k].msg
    BY <1>3, <1>4, <1>7 DEF QueueInv, Hands
  <2>6. \A l, k \in Pair : l # k /\ thread'[l].at # "none" /\ thread'[k].at # "none" => doubled'
    BY <1>1, <1>3, <1>4 DEF QueueInv, Hands
  <2> QED BY <2>1, <2>2, <2>3, <2>4, <2>5, <2>6 DEF Hands, Queue!Threads
<1>10. Line'
  <2>1. Line /\ buffer' = buffer
    BY <1>1 DEF QueueInv
  <2>2. \A b \in Elems(buffer)' : b \notin direct'
    BY <1>1, <1>2, <1>5, <1>6, <2>1 DEF Line
  <2>3. \A b \in Elems(buffer)' : \A l \in Pair :
          Holding(l)' /\ thread'[l].msg[1] = b[1] => thread'[l].msg[2] < b[2]
    BY <1>3, <1>4, <1>5, <1>7, <2>1 DEF Line
  <2>4. \A b \in Elems(buffer)' : \A h \in Workers : b \notin Called(h)'
    BY <1>5, <2>1 DEF Line
  <2>5. \A b \in Elems(buffer)' : \A h \in Workers : \A f \in Called(h)' : Newer(b, f)' => f \in direct'
    <3> SUFFICES ASSUME NEW b \in Elems(buffer), NEW h \in Workers, NEW f \in Called(h), Newer(b, f)
                 PROVE  f \in direct
      BY <1>1, <1>5 DEF Newer
    <3> QED BY <2>1 DEF Line
  <2> QED BY <2>1, <2>2, <2>3, <2>4, <2>5 DEF Line
<1>11. CallsFollow'
  <2>1. CallsFollow /\ direct \subseteq direct' /\ doubled' = doubled
    BY <1>1 DEF QueueInv
  <2>2. \A t \in Queue!Threads : thread'[t].at = "taken" => \A h \in Workers : thread'[t].msg \notin Called(h)'
    <3> TAKE t \in Queue!Threads
    <3>1. CASE t = p
      BY <3>1, <1>2, <1>4, <1>5, <1>6
    <3>2. CASE t # p
      BY <3>2, <1>4, <1>5, <2>1 DEF CallsFollow
    <3> QED BY <3>1, <3>2
  <2>3. \A t \in Queue!Threads : \A h \in thread'[t].rest : thread'[t].msg \notin Called(h)'
    <3> SUFFICES ASSUME NEW t \in Queue!Threads, NEW h \in thread'[t].rest
                 PROVE  thread'[t].msg \notin Called(h)'
      OBVIOUS
    <3>1. t # p
      BY <1>4
    <3>2. thread[t].msg \notin Called(h)
      BY <3>1, <1>4, <2>1 DEF CallsFollow
    <3>3. Called(h)' = Called(h)
      BY <1>1 DEF Called, Elems
    <3> QED BY <3>1, <3>2, <3>3, <1>4
  <2>4. \A l \in Pair : Holding(l)' =>
          \A h \in Workers : \A f \in Called(h)' : Newer(thread'[l].msg, f) => f \in direct' \/ doubled'
    <3> SUFFICES ASSUME NEW l \in Pair, Holding(l), NEW h \in Workers, NEW f \in Called(h), Newer(thread[l].msg, f)
                 PROVE  f \in direct \/ doubled
      BY <1>3, <1>4, <1>5, <1>7, <2>1
    <3> QED BY <2>1 DEF CallsFollow
  <2> QED BY <2>2, <2>3, <2>4 DEF CallsFollow, Queue!Threads, Newer
<1>12. Queue!OncePerHandlerInOrder'
  <2> SUFFICES ASSUME NEW h \in Workers, NEW j \in 1..Len(calls[h]), NEW i \in 1..(j - 1)
               PROVE  LET first == calls[h][i]
                          second == calls[h][j]
                      IN /\ first # second
                         /\ first[1] = second[1] /\ first[2] > second[2] =>
                              second \notin direct' /\ (first \in direct' \/ doubled)
    BY <1>1 DEF Queue!OncePerHandlerInOrder
  <2>1. /\ calls[h][i] # calls[h][j]
        /\ calls[h][i][1] = calls[h][j][1] /\ calls[h][i][2] > calls[h][j][2] =>
             calls[h][j] \notin direct /\ (calls[h][i] \in direct \/ doubled)
    BY DEF QueueInv, Queue!OncePerHandlerInOrder
  <2>2. calls[h][j] # m
    <3>1. calls[h][j] \in Called(h)
      BY DEF Called, Elems
    <3> QED BY <3>1, <1>2, <1>6
  <2> QED BY <1>1, <2>1, <2>2
<1> QED BY <1>8, <1>9, <1>10, <1>11, <1>12 DEF QueueInv

(* pop_message: the loop takes the oldest message off.                      *)
LEMMA PopInv ==
  ASSUME QueueInv, NEW l \in Pair, Queue!Pop(l), buffer # <<>>
  PROVE  QueueInv'
<1> PICK m : m = Head(buffer)
  OBVIOUS
<1>1. /\ thread[l].at = "looked" /\ buffer' = Tail(buffer)
      /\ thread' = [thread EXCEPT ![l] = [at |-> "taken", msg |-> m, rest |-> {}]]
      /\ UNCHANGED <<subscribers, sent, calls, direct, doubled>>
  BY DEF Queue!Pop, Queue!Take
<1>2. /\ buffer \in Seq(Messages) /\ Elems(buffer) \subseteq Known
      /\ m \in Elems(buffer) /\ m = buffer[1] /\ Len(buffer) \in Nat \ {0}
      /\ buffer' \in Seq(Messages) /\ Len(buffer') = Len(buffer) - 1 /\ Elems(buffer') \subseteq Elems(buffer)
      /\ \A i \in 1..Len(buffer') : i + 1 \in 2..Len(buffer) /\ buffer'[i] = buffer[i + 1]
  <2>1. buffer \in Seq(Messages) /\ Elems(buffer) \subseteq Known
    BY DEF QueueInv, QueueTyped
  <2> QED BY <2>1, <1>1, ElemsTail
<1>3. m \in Known /\ m \in Messages /\ m[2] \in Nat
  BY <1>2 DEF Known, Messages
<1>4. l \in Queue!Threads /\ l \notin Publishers
  BY ThreadsAre
<1>5. /\ thread' \in [Queue!Threads -> Walking]
      /\ thread'[l].at = "taken" /\ thread'[l].msg = m /\ thread'[l].rest = {}
      /\ \A u \in Queue!Threads \ {l} : thread'[u] = thread[u]
  <2>1. PICK w \in Walking : w = [at |-> "taken", msg |-> m, rest |-> {}]
    BY <1>3 DEF Walking
  <2>2. thread' = [thread EXCEPT ![l] = w]
    BY <1>1, <2>1
  <2> QED BY <1>4, <2>1, <2>2, ThreadMoves DEF QueueInv
<1>6. Known' = Known /\ Elems(buffer)' = Elems(buffer') /\ \A h \in Workers : Called(h)' = Called(h)
  BY <1>1 DEF Known, Elems, Called
<1>7. Holding(l)' /\ \A u \in Queue!Threads \ {l} : Holding(u)' = Holding(u)
  BY <1>5 DEF Holding
<1>8. QueueTyped'
  <2>1. Elems(buffer)' \subseteq Known' /\ direct' \subseteq Known' /\ \A h \in Workers : Called(h)' \subseteq Known'
    BY <1>1, <1>2, <1>6 DEF QueueInv, QueueTyped
  <2> QED BY <1>1, <1>2, <1>5, <2>1 DEF QueueInv, QueueTyped, Queue!Threads
<1>9. Hands'
  <2>1. \A t \in Queue!Threads : Holding(t)' => thread'[t].msg \in Known'
    BY <1>3, <1>5, <1>6, <1>7 DEF QueueInv, Hands
  <2>2. \A t \in Queue!Threads : ~Holding(t)' => thread'[t].msg = <<>> /\ thread'[t].rest = {}
    BY <1>5, <1>7 DEF QueueInv, Hands
  <2>3. \A q \in Publishers : Holding(q)' => thread'[q].msg = <<q, sent'[q]>> /\ thread'[q].msg \in direct'
    BY <1>1, <1>4, <1>5, <1>7, ThreadsAre DEF QueueInv, Hands
  <2>4. \A k \in Pair : Holding(k)' => thread'[k].msg \notin direct'
    <3> TAKE k \in Pair
    <3>1. CASE k = l
      BY <3>1, <1>1, <1>2, <1>5 DEF QueueInv, Line
    <3>2. CASE k # l
      BY <3>2, <1>1, <1>5, <1>7, ThreadsAre DEF QueueInv, Hands
    <3> QED BY <3>1, <3>2
  <2>5. \A j, k \in Pair : j # k /\ Holding(j)' /\ Holding(k)' => thread'[j].msg # thread'[k].msg
    <3>1. \A k \in Pair \ {l} : Holding(k) => thread[k].msg # m
      BY <1>2, <1>3 DEF QueueInv, Line
    <3>2. \A j, k \in Pair : j # k /\ Holding(j) /\ Holding(k) => thread[j].msg # thread[k].msg
      BY DEF QueueInv, Hands
    <3> QED BY <3>1, <3>2, <1>5, <1>7, ThreadsAre
  <2>6. \A j, k \in Pair : j # k /\ thread'[j].at # "none" /\ thread'[k].at # "none" => doubled'
    <3>1. \A u \in Queue!Threads : thread'[u].at # "none" => thread[u].at # "none"
      BY <1>1, <1>5
    <3>2. \A j, k \in Pair : j # k /\ thread[j].at # "none" /\ thread[k].at # "none" => doubled
      BY DEF QueueInv, Hands
    <3> QED BY <3>1, <3>2, <1>1, ThreadsAre
  <2> QED BY <2>1, <2>2, <2>3, <2>4, <2>5, <2>6 DEF Hands, Queue!Threads
<1>10. Line'
  <2>1. Line /\ direct' = direct
    BY <1>1 DEF QueueInv
  <2>2. \A j \in 1..Len(buffer') : \A i \in 1..(j - 1) :
          buffer'[i][1] = buffer'[j][1] => buffer'[i][2] < buffer'[j][2]
    <3> SUFFICES ASSUME NEW j \in 1..Len(buffer'), NEW i \in 1..(j - 1)
                 PROVE  buffer'[i][1] = buffer'[j][1] => buffer'[i][2] < buffer'[j][2]
      OBVIOUS
    <3>1. /\ j + 1 \in 1..Len(buffer) /\ i + 1 \in 1..((j + 1) - 1)
          /\ buffer'[j] = buffer[j + 1] /\ buffer'[i] = buffer[i + 1]
      BY <1>2
    <3>2. buffer[i + 1][1] = buffer[j + 1][1] => buffer[i + 1][2] < buffer[j + 1][2]
      BY <3>1, <2>1 DEF Line
    <3> QED BY <3>1, <3>2
  <2>3. \A b \in Elems(buffer') : b[1] = m[1] => m[2] < b[2]
    <3> SUFFICES ASSUME NEW i \in 1..Len(buffer') PROVE buffer'[i][1] = m[1] => m[2] < buffer'[i][2]
      BY DEF Elems
    <3>1. i + 1 \in 1..Len(buffer) /\ 1 \in 1..((i + 1) - 1) /\ buffer'[i] = buffer[i + 1]
      BY <1>2
    <3>2. buffer[1][1] = buffer[i + 1][1] => buffer[1][2] < buffer[i + 1][2]
      BY <3>1, <2>1 DEF Line
    <3> QED BY <3>1, <3>2, <1>2
  <2>4. \A b \in Elems(buffer)' : \A k \in Pair :
          Holding(k)' /\ thread'[k].msg[1] = b[1] => thread'[k].msg[2] < b[2]
    <3> SUFFICES ASSUME NEW b \in Elems(buffer'), NEW k \in Pair, Holding(k)', thread'[k].msg[1] = b[1]
                 PROVE  thread'[k].msg[2] < b[2]
      BY <1>6
    <3>1. CASE k = l
      BY <3>1, <1>5, <2>3
    <3>2. CASE k # l
      BY <3>2, <1>2, <1>5, <1>7, <2>1, ThreadsAre DEF Line
    <3> QED BY <3>1, <3>2
  <2>5. \A b \in Elems(buffer)' : b \notin direct' /\ \A h \in Workers : b \notin Called(h)'
    BY <1>2, <1>6, <2>1 DEF Line
  <2>6. \A b \in Elems(buffer)' : \A h \in Workers : \A f \in Called(h)' : Newer(b, f)' => f \in direct'
    <3> SUFFICES ASSUME NEW b \in Elems(buffer), NEW h \in Workers, NEW f \in Called(h), Newer(b, f)
                 PROVE  f \in direct
      BY <1>2, <1>6, <2>1 DEF Newer
    <3> QED BY <2>1 DEF Line
  <2> QED BY <2>2, <2>4, <2>5, <2>6 DEF Line
<1>11. CallsFollow'
  <2>1. CallsFollow /\ direct' = direct /\ doubled' = doubled
    BY <1>1 DEF QueueInv
  <2>2. \A t \in Queue!Threads : thread'[t].at = "taken" => \A h \in Workers : thread'[t].msg \notin Called(h)'
    <3> TAKE t \in Queue!Threads
    <3>1. CASE t = l
      BY <3>1, <1>2, <1>5, <1>6 DEF QueueInv, Line
    <3>2. CASE t # l
      BY <3>2, <1>5, <1>6, <2>1 DEF CallsFollow
    <3> QED BY <3>1, <3>2
  <2>3. \A t \in Queue!Threads : \A h \in thread'[t].rest : thread'[t].msg \notin Called(h)'
    <3> SUFFICES ASSUME NEW t \in Queue!Threads, NEW h \in thread'[t].rest
                 PROVE  thread'[t].msg \notin Called(h)'
      OBVIOUS
    <3>1. t # l
      BY <1>5
    <3>2. thread[t].msg \notin Called(h)
      BY <3>1, <1>5, <2>1 DEF CallsFollow
    <3>3. Called(h)' = Called(h)
      BY <1>1 DEF Called, Elems
    <3> QED BY <3>1, <3>2, <3>3, <1>5
  <2>4. \A k \in Pair : Holding(k)' =>
          \A h \in Workers : \A f \in Called(h)' : Newer(thread'[k].msg, f) => f \in direct' \/ doubled'
    <3> SUFFICES ASSUME NEW k \in Pair, Holding(k)', NEW h \in Workers, NEW f \in Called(h), Newer(thread'[k].msg, f)
                 PROVE  f \in direct \/ doubled
      BY <1>6, <2>1
    <3>1. CASE k = l
      BY <3>1, <1>2, <1>5 DEF QueueInv, Line
    <3>2. CASE k # l
      BY <3>2, <1>5, <1>7, <2>1, ThreadsAre DEF CallsFollow
    <3> QED BY <3>1, <3>2
  <2> QED BY <2>2, <2>3, <2>4 DEF CallsFollow, Queue!Threads, Newer
<1>12. Queue!OncePerHandlerInOrder'
  BY <1>1 DEF QueueInv, Queue!OncePerHandlerInOrder
<1> QED BY <1>8, <1>9, <1>10, <1>11, <1>12 DEF QueueInv


(* The two that hold a message hold two messages.                           *)
LEMMA HoldersDiffer ==
  ASSUME QueueInv, NEW t \in Queue!Threads, NEW u \in Queue!Threads, t # u, Holding(t), Holding(u)
  PROVE  thread[t].msg # thread[u].msg
<1>1. CASE t \in Pair /\ u \in Pair
  BY <1>1 DEF QueueInv, Hands
<1>2. CASE t \in Publishers /\ u \in Publishers
  <2>1. thread[t].msg = <<t, sent[t]>> /\ thread[u].msg = <<u, sent[u]>>
    BY <1>2 DEF QueueInv, Hands
  <2> QED BY <2>1
<1>3. CASE (t \in Pair /\ u \in Publishers) \/ (t \in Publishers /\ u \in Pair)
  BY <1>3 DEF QueueInv, Hands
<1> QED BY <1>1, <1>2, <1>3, ThreadsAre

(* What a call f and a later one e to the same handler may be.              *)
Follows(f, e) ==
  /\ f # e
  /\ f[1] = e[1] /\ f[2] > e[2] => e \notin direct /\ (f \in direct \/ doubled)

(* _dispatch calls a handler.                                               *)
LEMMA CallInv ==
  ASSUME QueueInv, NEW t \in Queue!Threads, NEW g \in Workers, Queue!CallHandler(t, g)
  PROVE  QueueInv'
<1> PICK m : m = thread[t].msg
  OBVIOUS
<1>1. /\ thread[t].at = "calling" /\ g \in thread[t].rest
      /\ calls' = [calls EXCEPT ![g] = Append(@, m)]
      /\ thread' = [thread EXCEPT ![t] = [thread[t] EXCEPT !.rest = thread[t].rest \ {g}]]
      /\ UNCHANGED <<buffer, subscribers, sent, direct, doubled>>
  BY DEF Queue!CallHandler
<1>2. Holding(t) /\ m \in Known /\ m \in Messages /\ m[2] \in Nat /\ m \notin Called(g)
  <2>1. Holding(t)
    BY <1>1 DEF Holding
  <2>2. m \in Known /\ m \notin Called(g)
    BY <1>1, <2>1 DEF QueueInv, Hands, CallsFollow
  <2> QED BY <2>1, <2>2 DEF Known, Messages
<1>3. /\ thread' \in [Queue!Threads -> Walking]
      /\ thread'[t].at = "calling" /\ thread'[t].msg = m /\ thread'[t].rest = thread[t].rest \ {g}
      /\ \A u \in Queue!Threads \ {t} : thread'[u] = thread[u]
  <2>1. thread[t] \in Walking
    BY DEF QueueInv, QueueTyped
  <2>2. PICK r : r = thread[t].rest \ {g}
    OBVIOUS
  <2>3. [thread[t] EXCEPT !.rest = r] = [at |-> thread[t].at, msg |-> thread[t].msg, rest |-> r]
    BY <2>1, FieldMoves, Zenon
  <2>4. PICK w \in Walking : w = [at |-> "calling", msg |-> m, rest |-> r]
    BY <2>1, <2>2 DEF Walking
  <2>5. thread' = [thread EXCEPT ![t] = [thread[t] EXCEPT !.rest = r]]
    BY <1>1, <2>2, Zenon
  <2>6. [thread[t] EXCEPT !.rest = r] = w
    BY <2>3, <2>4, <1>1
  <2>7. thread' = [thread EXCEPT ![t] = w]
    BY <2>5, <2>6, Zenon
  <2> QED BY <2>2, <2>4, <2>7, ThreadMoves DEF QueueInv
<1>4. /\ calls[g] \in Seq(Messages) /\ calls' \in [Workers -> Seq(Messages)]
      /\ calls'[g] = Append(calls[g], m) /\ \A h \in Workers \ {g} : calls'[h] = calls[h]
  <2>1. calls \in [Workers -> Seq(Messages)]
    BY DEF QueueInv, QueueTyped
  <2>2. Append(calls[g], m) \in Seq(Messages)
    BY <2>1, <1>2, AppendProperties
  <2> QED BY <1>1, <2>1, <2>2
<1>5. /\ Called(g)' = Called(g) \cup {m} /\ \A h \in Workers \ {g} : Called(h)' = Called(h)
      /\ \A h \in Workers : \A f \in Called(h)' : f \in Called(h) \/ (h = g /\ f = m)
  <2>1. Elems(Append(calls[g], m)) = Elems(calls[g]) \cup {m}
    BY <1>2, <1>4, ElemsAppend
  <2>2. Called(g)' = Called(g) \cup {m}
    BY <2>1, <1>4 DEF Called, Elems
  <2>3. \A h \in Workers \ {g} : Called(h)' = Called(h)
    BY <1>4 DEF Called, Elems
  <2> QED BY <2>2, <2>3
<1>6. Known' = Known /\ Elems(buffer)' = Elems(buffer)
  BY <1>1 DEF Known, Elems
<1>7. \A u \in Queue!Threads : Holding(u)' = Holding(u) /\ thread'[u].at = thread[u].at /\ thread'[u].msg = thread[u].msg
  <2> TAKE u \in Queue!Threads
  <2>1. CASE u = t
    BY <2>1, <1>1, <1>3 DEF Holding
  <2>2. CASE u # t
    BY <2>2, <1>3 DEF Holding
  <2> QED BY <2>1, <2>2
<1>8. QueueTyped'
  <2>1. Elems(buffer)' \subseteq Known' /\ direct' \subseteq Known'
    BY <1>1, <1>6 DEF QueueInv, QueueTyped
  <2>2. \A h \in Workers : Called(h)' \subseteq Known'
    BY <1>2, <1>5, <1>6 DEF QueueInv, QueueTyped
  <2> QED BY <1>1, <1>3, <1>4, <2>1, <2>2 DEF QueueInv, QueueTyped, Queue!Threads
<1>9. Hands'
  <2>1. Hands /\ sent' = sent /\ direct' = direct /\ doubled' = doubled
    BY <1>1 DEF QueueInv
  <2>2. \A u \in Queue!Threads : ~Holding(u)' => thread'[u].msg = <<>> /\ thread'[u].rest = {}
    BY <1>2, <1>3, <1>7, <2>1 DEF Hands
  <2> QED BY <1>6, <1>7, <2>1, <2>2, ThreadsAre DEF Hands, Queue!Threads
<1>10. Line'
  <2>1. Line /\ direct' = direct /\ buffer' = buffer
    BY <1>1 DEF QueueInv
  <2>2. \A b \in Elems(buffer) : b # m /\ (Newer(b, m) => m \in direct)
    <3> TAKE b \in Elems(buffer)
    <3>1. CASE t \in Publishers
      <4>1. m \in direct
        BY <3>1, <1>2 DEF QueueInv, Hands
      <4> QED BY <4>1, <2>1 DEF Line
    <3>2. CASE t \in Pair
      <4>1. m[1] = b[1] => m[2] < b[2]
        BY <3>2, <1>2, <2>1 DEF Line
      <4>2. b[2] \in Nat
        BY DEF QueueInv, QueueTyped, Known, Messages
      <4> QED BY <4>1, <4>2, <1>2 DEF Newer
    <3> QED BY <3>1, <3>2, ThreadsAre
  <2>3. \A b \in Elems(buffer)' : \A l \in Pair :
          Holding(l)' /\ thread'[l].msg[1] = b[1] => thread'[l].msg[2] < b[2]
    BY <1>6, <1>7, <2>1, ThreadsAre DEF Line
  <2>4. \A b \in Elems(buffer)' : b \notin direct' /\ \A h \in Workers : b \notin Called(h)'
    BY <1>5, <1>6, <2>1, <2>2 DEF Line
  <2>5. \A b \in Elems(buffer)' : \A h \in Workers : \A f \in Called(h)' : Newer(b, f)' => f \in direct'
    <3> SUFFICES ASSUME NEW b \in Elems(buffer), NEW h \in Workers, NEW f \in Called(h)', Newer(b, f)
                 PROVE  f \in direct
      BY <1>6, <2>1 DEF Newer
    <3>1. CASE f \in Called(h)
      BY <3>1, <2>1 DEF Line
    <3>2. CASE f = m
      BY <3>2, <2>2
    <3> QED BY <3>1, <3>2, <1>5
  <2>6. \A j \in 1..Len(buffer') : \A i \in 1..(j - 1) :
          buffer'[i][1] = buffer'[j][1] => buffer'[i][2] < buffer'[j][2]
    BY <2>1 DEF Line
  <2> QED BY <2>3, <2>4, <2>5, <2>6 DEF Line
<1>11. CallsFollow'
  <2>1. CallsFollow /\ direct' = direct /\ doubled' = doubled
    BY <1>1 DEF QueueInv
  <2>2. \A u \in Queue!Threads \ {t} : Holding(u) => thread[u].msg # m
    BY <1>2, HoldersDiffer
  <2>3. \A u \in Queue!Threads : thread'[u].at = "taken" => \A h \in Workers : thread'[u].msg \notin Called(h)'
    <3> SUFFICES ASSUME NEW u \in Queue!Threads, thread[u].at = "taken", NEW h \in Workers
                 PROVE  thread[u].msg \notin Called(h)'
      BY <1>7
    <3>1. thread[u].msg \notin Called(h)
      BY <2>1 DEF CallsFollow
    <3>2. thread[u].msg # m
      BY <2>2, <1>1 DEF Holding
    <3> QED BY <3>1, <3>2, <1>5
  <2>4. \A u \in Queue!Threads : \A h \in thread'[u].rest : thread'[u].msg \notin Called(h)'
    <3> SUFFICES ASSUME NEW u \in Queue!Threads, NEW h \in thread'[u].rest
                 PROVE  thread[u].msg \notin Called(h)'
      BY <1>7
    <3>1. h \in thread[u].rest /\ h \in Workers /\ (u = t => h # g)
      <4>1. h \in thread[u].rest /\ (u = t => h # g)
        BY <1>3
      <4>2. thread[u] \in Walking
        BY DEF QueueInv, QueueTyped
      <4> QED BY <4>1, <4>2 DEF Walking
    <3>2. thread[u].msg \notin Called(h)
      BY <3>1, <2>1 DEF CallsFollow
    <3>3. CASE u = t
      BY <3>1, <3>2, <3>3, <1>5
    <3>4. CASE u # t
      <4>1. Holding(u)
        BY <3>1 DEF QueueInv, Hands
      <4> QED BY <3>1, <3>2, <3>4, <4>1, <2>2, <1>5
    <3> QED BY <3>3, <3>4
  <2>5. \A l \in Pair : Holding(l)' =>
          \A h \in Workers : \A f \in Called(h)' : Newer(thread'[l].msg, f) => f \in direct' \/ doubled'
    <3> SUFFICES ASSUME NEW l \in Pair, Holding(l), NEW h \in Workers, NEW f \in Called(h)', Newer(thread[l].msg, f)
                 PROVE  f \in direct \/ doubled
      BY <1>7, <2>1, ThreadsAre
    <3>1. CASE f \in Called(h)
      BY <3>1, <2>1 DEF CallsFollow
    <3>2. CASE f = m
      <4>1. CASE l = t
        BY <3>2, <4>1, <1>2 DEF Newer
      <4>2. CASE t \in Publishers
        BY <3>2, <4>2, <1>2 DEF QueueInv, Hands
      <4>3. CASE t \in Pair /\ l # t
        BY <4>3, <1>2 DEF QueueInv, Hands, Holding
      <4> QED BY <4>1, <4>2, <4>3, ThreadsAre
    <3> QED BY <3>1, <3>2, <1>5
  <2> QED BY <2>3, <2>4, <2>5 DEF CallsFollow, Queue!Threads, Newer
<1>12. Queue!OncePerHandlerInOrder'
  <2>1. \A h \in Workers : \A j \in 1..Len(calls[h]) : \A i \in 1..(j - 1) : Follows(calls[h][i], calls[h][j])
    BY DEF QueueInv, Queue!OncePerHandlerInOrder, Follows
  <2> SUFFICES ASSUME NEW h \in Workers, NEW j \in 1..Len(calls'[h]), NEW i \in 1..(j - 1)
               PROVE  Follows(calls'[h][i], calls'[h][j])
    <3>1. ASSUME \A h \in Workers : \A j \in 1..Len(calls'[h]) : \A i \in 1..(j - 1) :
                   Follows(calls'[h][i], calls'[h][j])
          PROVE  Queue!OncePerHandlerInOrder'
      <4>1. direct' = direct /\ doubled' = doubled
        BY <1>1
      <4> QED BY <3>1, <4>1 DEF Queue!OncePerHandlerInOrder, Follows
    <3> QED BY <3>1
  <2>2. CASE h # g
    <3>1. calls'[h] = calls[h]
      BY <2>2, <1>4
    <3> QED BY <3>1, <2>1
  <2>3. CASE h = g
    <3>1. /\ Len(calls'[g]) = Len(calls[g]) + 1 /\ Len(calls[g]) \in Nat /\ calls'[g][Len(calls[g]) + 1] = m
          /\ \A k \in 1..Len(calls[g]) : calls'[g][k] = calls[g][k]
      BY <1>2, <1>4, AppendProperties
    <3>2. i \in 1..Len(calls[g]) /\ (j # Len(calls[g]) + 1 => j \in 1..Len(calls[g]))
      BY <2>3, <3>1
    <3>3. CASE j # Len(calls[g]) + 1
      <4>1. calls'[h][i] = calls[h][i] /\ calls'[h][j] = calls[h][j] /\ j \in 1..Len(calls[h])
        BY <2>3, <3>1, <3>2, <3>3
      <4> QED BY <4>1, <2>1
    <3>4. CASE j = Len(calls[g]) + 1
      <4>1. PICK f : f = calls[g][i]
        OBVIOUS
      <4>2. calls'[h][i] = f /\ calls'[h][j] = m /\ f \in Called(g)
        BY <2>3, <3>1, <3>2, <3>4, <4>1 DEF Called, Elems
      <4>3. f # m
        BY <4>2, <1>2
      <4>4. f[1] = m[1] /\ f[2] > m[2] => m \notin direct /\ (f \in direct \/ doubled)
        <5> SUFFICES ASSUME Newer(m, f) PROVE m \notin direct /\ (f \in direct \/ doubled)
          BY DEF Newer
        <5>1. CASE t \in Pair
          <6>1. m \notin direct
            BY <5>1, <1>2 DEF QueueInv, Hands
          <6>2. f \in direct \/ doubled
            BY <5>1, <1>2, <4>2 DEF QueueInv, CallsFollow
          <6> QED BY <6>1, <6>2
        <5>2. CASE t \in Publishers
          <6>1. m = <<t, sent[t]>>
            BY <5>2, <1>2 DEF QueueInv, Hands
          <6>2. f \in Messages /\ f[2] <= sent[f[1]] /\ sent \in [Publishers -> Nat]
            BY <4>2 DEF QueueInv, QueueTyped, Known
          <6>3. f[1] = t /\ f[2] > sent[t]
            BY <6>1 DEF Newer
          <6>4. f[2] \in Nat /\ sent[t] \in Nat
            BY <6>2, <5>2 DEF Messages
          <6> QED BY <6>2, <6>3, <6>4
        <5> QED BY <5>1, <5>2, ThreadsAre
      <4> QED BY <4>2, <4>3, <4>4 DEF Follows
    <3> QED BY <3>3, <3>4
  <2> QED BY <2>2, <2>3
<1> QED BY <1>8, <1>9, <1>10, <1>11, <1>12 DEF QueueInv

LEMMA QueueNext == QueueInv /\ [Queue!Next]_messaging => QueueInv'
<1> SUFFICES ASSUME QueueInv, [Queue!Next]_messaging
             PROVE  QueueInv'
  OBVIOUS
<1>1. subscribers \in SUBSET Workers
  BY DEF QueueInv, QueueTyped
<1>2. CASE UNCHANGED messaging
  <2>1. UNCHANGED <<buffer, thread, sent, calls, direct, doubled, subscribers>>
    BY <1>2 DEF messaging
  <2> QED BY <1>1, <2>1, AsideInv
<1>3. ASSUME NEW p \in Publishers, Queue!Publish(p) PROVE QueueInv'
  BY <1>3, PublishBuffered, PublishDirect
<1>4. ASSUME NEW h \in Workers, Queue!ChangeSubscription(h) PROVE QueueInv'
  <2>1. subscribers' \in SUBSET Workers
    BY <1>1, <1>4 DEF Queue!ChangeSubscription
  <2>2. UNCHANGED <<buffer, thread, sent, calls, direct, doubled>>
    BY <1>4 DEF Queue!ChangeSubscription
  <2> QED BY <2>1, <2>2, AsideInv
<1>5. CASE Queue!Start
  BY <1>5, StartInv
<1>6. CASE Queue!Stop
  <2>1. UNCHANGED <<buffer, thread, sent, calls, direct, doubled, subscribers>>
    BY <1>6 DEF Queue!Stop
  <2> QED BY <1>1, <2>1, AsideInv
<1>7. ASSUME NEW l \in Pair, Queue!LookAtRunning(l) PROVE QueueInv'
  BY <1>7, LoopInv
<1>8. ASSUME NEW l \in Pair, Queue!Pop(l) PROVE QueueInv'
  BY <1>8, LoopInv, PopInv
<1>9. ASSUME NEW t \in Queue!Threads, Queue!CopyHandlers(t) \/ Queue!Done(t) PROVE QueueInv'
  BY <1>9, DispatchInv
<1>10. ASSUME NEW t \in Queue!Threads, NEW h \in Workers, Queue!CallHandler(t, h) PROVE QueueInv'
  BY <1>10, CallInv
<1> QED BY <1>2, <1>3, <1>4, <1>5, <1>6, <1>7, <1>8, <1>9, <1>10 DEF Queue!Next


LEMMA QueueSafe == QueueInv => Queue!OncePerHandlerInOrder
BY DEF QueueInv

-----------------------------------------------------------------------------
(* The four parts, each for itself.                                         *)

\* However publishers, loop threads, subscriptions, starts and stops of
\* InMemoryMessageQueue interleave, no handler is called twice with a message
\* and a publisher's messages come in order but for what publish dispatched
\* itself and for two loops (publish, start, _dispatch_loop, _dispatch).
THEOREM MessagesOnceInOrder == Queue!Spec => []Queue!OncePerHandlerInOrder
<1>1. QueueInv /\ [Queue!Next]_Queue!messaging => QueueInv'
  BY QueueNext DEF Queue!messaging, messaging
<1> QED BY <1>1, QueueInit, QueueSafe, PTL DEF Queue!Spec

\* Whoever acquires, fails, releases, closes all and makes a new pool, no two
\* users have one connection, what is idle is in nobody's hands, and no pool
\* has more open connections than max_connections (ConnectionPool.acquire,
\* release, close_all).
THEOREM ConnectionsInOneHand == Pool!Spec => []Pool!PoolKeepsCount
<1>1. PoolInv /\ [Pool!Next]_Pool!pooling => PoolInv'
  BY PoolNext DEF Pool!pooling, pooling
<1> QED BY <1>1, PoolInit, PoolSafe, PTL DEF Pool!Spec

\* Two nodes that think themselves leader: one of them was told so by an
\* answer that was late, or has lost the session that held the advisory lock
\* (PostgresLeaderElection.acquire, heartbeat, release).
THEOREM OneAdvisoryLeader == Advisory!Spec => []Advisory!OneLeaderOrExcused
<1>1. AdvisoryInv /\ [Advisory!Next]_Advisory!elected => AdvisoryInv'
  BY AdvisoryNext DEF Advisory!elected, elected
<1> QED BY <1>1, AdvisoryInit, AdvisorySafe, PTL DEF Advisory!Spec

\* Of the processes that locked one file, one is the leader
\* (FileLeaderElection.acquire, release).
THEOREM OneLeaderOfAFile == LockFile!Spec => []LockFile!OneLeaderPerFile
<1>1. LockFileInv /\ [LockFile!Next]_LockFile!locking => LockFileInv'
  BY LockFileNext DEF LockFile!locking, locking
<1> QED BY <1>1, LockFileInit, LockFileSafe, PTL DEF LockFile!Spec

\* The four together, as the run of MCOrderEvents checks them.
THEOREM SharedParts == MCSpec => []SharedOneAtATime
<1> DEFINE J == QueueInv /\ PoolInv /\ AdvisoryInv /\ LockFileInv
           all == <<vars, face, messaging, pooling, elected, locking>>
<1>1. MCInit => J
  BY QueueInit, PoolInit, AdvisoryInit, LockFileInit DEF MCInit
<1>2. J /\ [MCNext]_all => J'
  <2> SUFFICES ASSUME J, [MCNext]_all PROVE J'
    OBVIOUS
  <2>1. [Queue!Next]_messaging
    BY DEF MCNext
  <2>2. [Pool!Next]_pooling
    BY DEF MCNext
  <2>3. [Advisory!Next]_elected
    BY DEF MCNext
  <2>4. [LockFile!Next]_locking
    BY DEF MCNext
  <2> QED BY <2>1, <2>2, <2>3, <2>4, QueueNext, PoolNext, AdvisoryNext, LockFileNext
<1>3. J => SharedOneAtATime
  BY QueueSafe, PoolSafe, AdvisorySafe, LockFileSafe DEF SharedOneAtATime
<1> HIDE DEF J
<1> QED BY <1>1, <1>2, <1>3, PTL DEF MCSpec
=============================================================================
