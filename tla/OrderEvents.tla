----------------------------- MODULE OrderEvents -----------------------------
(***************************************************************************)
(* The order event engine (application/order_event_engine.py) with its      *)
(* journal (infrastructure/journal.py) and the lifecycle of a trade         *)
(* (domain/entities/trade.py): threads bring the broker's events, repeated  *)
(* and in any order; apply() checks one under the lock of its trade, moves  *)
(* the trade, journals, stores, publishes, marks and updates the portfolio, *)
(* and may be ended by an exception or a crash after each of these; replay()*)
(* publishes what the journal has unpublished, without any lock.            *)
(*                                                                          *)
(* Abstractions.  Quantities and prices of fills are reduced to whether     *)
(* _validate_fill accepts them.  Journal, store, portfolio and bus are      *)
(* configured.  The order of the journal's rows is left out: replay takes   *)
(* the pending ones in any order.                                           *)
(***************************************************************************)
EXTENDS Naturals

CONSTANTS
  Workers,     \* threads that call apply()
  Trades,
  Events,      \* event ids
  NoEvent,     \* "no event"
  MaxCrashes   \* bound: crashes explored

ASSUME EventsAssumption == NoEvent \notin Events /\ MaxCrashes \in Nat

VARIABLES
  report,     \* external: what each event says
  memory,     \* the Trade objects: status, and history: the events in it
  stored,     \* what persist has written of them
  seen,       \* _seen_events
  recorded,   \* rows of the journal
  marked,     \* rows with published = 1
  pc, job,    \* where each thread is in apply(), and its event
  outbox,     \* what replay() has fetched and not published yet
  sending,    \* what replay() has published and not marked yet
  delivered,  \* history: how often the bus got each event, saturating at 2
  applied,    \* history: how often the portfolio got it, saturating at 2
  faulty,     \* history: an exception or a crash has ended a call halfway
  crashes     \* number of crashes so far

engine == <<memory, stored, seen>>
journal == <<recorded, marked>>
replayer == <<outbox, sending>>
vars == <<report, engine, journal, pc, job, replayer, delivered, applied, faulty, crashes>>

Statuses == {"submitted", "acknowledged", "partially_filled", "filled",
             "cancelled", "rejected", "expired"}
Fills == {"partially_filled", "filled"}
Effects == {"record", "persist", "publish", "mark", "portfolio"}
Steps == {"idle", "check", "move"} \cup Effects

(* Types of the engine, the journal and the histories.                      *)
TypeOK ==
  /\ report \in [Events -> [trade : Trades, to : Statuses, sound : BOOLEAN]]
  /\ memory \in [Trades -> [status : Statuses, events : SUBSET Events]]
  /\ stored \in [Trades -> [status : Statuses, events : SUBSET Events]]
  /\ seen \subseteq Events /\ recorded \subseteq Events /\ marked \subseteq Events
  /\ pc \in [Workers -> Steps]
  /\ job \in [Workers -> Events \cup {NoEvent}]
  /\ outbox \subseteq Events /\ sending \in Events \cup {NoEvent}
  /\ delivered \in [Events -> 0..2] /\ applied \in [Events -> 0..2]
  /\ faulty \in BOOLEAN
  /\ crashes \in 0..MaxCrashes

NewTrade == [status |-> "submitted", events |-> {}]

Init ==
  /\ report \in [Events -> [trade : Trades, to : Statuses, sound : BOOLEAN]]
  /\ \A e \in Events : report[e].to \notin Fills => report[e].sound
  /\ memory = [t \in Trades |-> NewTrade] /\ stored = memory
  /\ seen = {} /\ recorded = {} /\ marked = {}
  /\ pc = [w \in Workers |-> "idle"] /\ job = [w \in Workers |-> NoEvent]
  /\ outbox = {} /\ sending = NoEvent
  /\ delivered = [e \in Events |-> 0] /\ applied = delivered
  /\ faulty = FALSE /\ crashes = 0

-----------------------------------------------------------------------------
(* Mutant: a cancellation that comes late is let through.                   *)
ValidTransitionsLate == [s \in Statuses |->
  CASE s = "submitted" -> Statuses \ {"submitted", "expired"}
    [] s = "acknowledged" -> Statuses \ {"submitted", "acknowledged"}
    [] s \in {"partially_filled", "filled"} -> {"filled", "cancelled", "rejected", "expired"}
    [] OTHER -> {}]

(* _VALID_TRANSITIONS, of the statuses a broker's event can meet.           *)
ValidTransitions == [s \in Statuses |->
  CASE s = "submitted" -> Statuses \ {"submitted", "expired"}
    [] s = "acknowledged" -> Statuses \ {"submitted", "acknowledged"}
    [] s = "partially_filled" -> {"filled", "cancelled", "rejected", "expired"}
    [] OTHER -> {}]

(* _guard_transition; a report of "submitted" for a submitted trade passes  *)
(* the chain of apply() and changes nothing.                                *)
CanMove(from, to) == to \in ValidTransitions[from] \/ (from = "submitted" /\ to = from)

TradeOf(e) == report[e].trade

(* _lock_for(trade.id) is held.                                             *)
Locked(e) == \E w \in Workers : job[w] # NoEvent /\ TradeOf(job[w]) = TradeOf(e)

(* Mutants: the effects of apply() in another order.                        *)
FollowingPortfolioFirst ==
  [move |-> "portfolio", portfolio |-> "record", record |-> "persist",
   persist |-> "publish", publish |-> "mark", mark |-> "idle"]
FollowingPublishFirst ==
  [move |-> "publish", publish |-> "record", record |-> "persist",
   persist |-> "mark", mark |-> "portfolio", portfolio |-> "idle"]

(* The order of the effects of apply().                                     *)
Following ==
  [move |-> "record", record |-> "persist", persist |-> "publish",
   publish |-> "mark", mark |-> "portfolio", portfolio |-> "idle"]

(* The thread goes on to the step after this one, or returns True.          *)
Advance(w) ==
  /\ pc' = [pc EXCEPT ![w] = Following[pc[w]]]
  /\ job' = IF Following[pc[w]] = "idle" THEN [job EXCEPT ![w] = NoEvent] ELSE job

(* The thread leaves apply() and releases the lock.                         *)
Leave(w) ==
  /\ pc' = [pc EXCEPT ![w] = "idle"]
  /\ job' = [job EXCEPT ![w] = NoEvent]

Once(count, e) == [count EXCEPT ![e] = IF @ < 2 THEN @ + 1 ELSE 2]

-----------------------------------------------------------------------------
(* An event arrives, for the first time or again, and its thread gets the   *)
(* lock of the trade.                                                       *)
Arrive(w, e) ==
  /\ pc[w] = "idle"
  /\ ~Locked(e)
  /\ pc' = [pc EXCEPT ![w] = "check"]
  /\ job' = [job EXCEPT ![w] = e]
  /\ UNCHANGED <<report, engine, journal, replayer, delivered, applied, faulty, crashes>>

(* key in self._seen_events or self.journal.contains(key).                  *)
IsDuplicate(e) == e \in seen \cup recorded

(* return False.                                                            *)
Duplicate(w) ==
  /\ pc[w] = "check"
  /\ IsDuplicate(job[w])
  /\ Leave(w)
  /\ UNCHANGED <<report, engine, journal, replayer, delivered, applied, faulty, crashes>>

Acceptable(e) == report[e].sound /\ CanMove(memory[TradeOf(e)].status, report[e].to)

(* _validate_fill or the transition's guard raises.                         *)
Refuse(w) ==
  /\ pc[w] = "check"
  /\ ~IsDuplicate(job[w])
  /\ ~Acceptable(job[w])
  /\ Leave(w)
  /\ UNCHANGED <<report, engine, journal, replayer, delivered, applied, faulty, crashes>>

Accept(w) ==
  /\ pc[w] = "check"
  /\ ~IsDuplicate(job[w])
  /\ Acceptable(job[w])
  /\ pc' = [pc EXCEPT ![w] = "move"]
  /\ UNCHANGED <<report, engine, journal, job, replayer, delivered, applied, faulty, crashes>>

(* The trade takes the new status, and the event is seen.                   *)
Move(w) ==
  /\ pc[w] = "move"
  /\ memory' = [memory EXCEPT ![TradeOf(job[w])] =
                  [status |-> report[job[w]].to, events |-> @.events \cup {job[w]}]]
  /\ seen' = seen \cup {job[w]}
  /\ Advance(w)
  /\ UNCHANGED <<report, stored, journal, replayer, delivered, applied, faulty, crashes>>

(* journal.record: an INSERT under the event's id as primary key.           *)
Record(w) ==
  /\ pc[w] = "record"
  /\ job[w] \notin recorded
  /\ recorded' = recorded \cup {job[w]}
  /\ Advance(w)
  /\ UNCHANGED <<report, engine, marked, replayer, delivered, applied, faulty, crashes>>

(* persist(trade): the whole trade as it is now.                            *)
Persist(w) ==
  /\ pc[w] = "persist"
  /\ stored' = [stored EXCEPT ![TradeOf(job[w])] = memory[TradeOf(job[w])]]
  /\ Advance(w)
  /\ UNCHANGED <<report, memory, seen, journal, replayer, delivered, applied, faulty, crashes>>

Publish(w) ==
  /\ pc[w] = "publish"
  /\ delivered' = Once(delivered, job[w])
  /\ Advance(w)
  /\ UNCHANGED <<report, engine, journal, replayer, applied, faulty, crashes>>

MarkPublished(w) ==
  /\ pc[w] = "mark"
  /\ marked' = marked \cup {job[w]}
  /\ Advance(w)
  /\ UNCHANGED <<report, engine, recorded, replayer, delivered, applied, faulty, crashes>>

(* portfolio_update(trade), the audit entry, return True.                   *)
UpdatePortfolio(w) ==
  /\ pc[w] = "portfolio"
  /\ applied' = Once(applied, job[w])
  /\ Advance(w)
  /\ UNCHANGED <<report, engine, journal, replayer, delivered, faulty, crashes>>

(* The database, the bus or a callback raises instead: what was done stays. *)
Raise(w) ==
  /\ pc[w] \in Effects
  /\ Leave(w)
  /\ faulty' = TRUE
  /\ UNCHANGED <<report, engine, journal, replayer, delivered, applied, crashes>>

-----------------------------------------------------------------------------
(* replay(): fetches the unpublished rows ...                               *)
FetchPending ==
  /\ outbox = {} /\ sending = NoEvent
  /\ recorded \ marked # {}
  /\ outbox' = recorded \ marked
  /\ UNCHANGED <<report, engine, journal, pc, job, sending, delivered, applied, faulty, crashes>>

(* ... and publishes and marks them one after the other.                    *)
Republish(e) ==
  /\ e \in outbox /\ sending = NoEvent
  /\ outbox' = outbox \ {e}
  /\ sending' = e
  /\ delivered' = Once(delivered, e)
  /\ UNCHANGED <<report, engine, journal, pc, job, applied, faulty, crashes>>

MarkRepublished ==
  /\ sending # NoEvent
  /\ marked' = marked \cup {sending}
  /\ sending' = NoEvent
  /\ UNCHANGED <<report, engine, recorded, pc, job, outbox, delivered, applied, faulty, crashes>>

(* The bus or the database raises in replay().                              *)
AbandonReplay ==
  /\ outbox # {} \/ sending # NoEvent
  /\ outbox' = {} /\ sending' = NoEvent
  /\ UNCHANGED <<report, engine, journal, pc, job, delivered, applied, faulty, crashes>>

(* The process dies and comes back: a new engine preloads the journal's     *)
(* ids, the trades are read from the store.                                 *)
Crash ==
  /\ crashes < MaxCrashes
  /\ crashes' = crashes + 1
  /\ memory' = stored
  /\ seen' = recorded
  /\ pc' = [w \in Workers |-> "idle"] /\ job' = [w \in Workers |-> NoEvent]
  /\ outbox' = {} /\ sending' = NoEvent
  /\ faulty' = TRUE
  /\ UNCHANGED <<report, stored, journal, delivered, applied>>

-----------------------------------------------------------------------------
(* One step of apply().                                                     *)
ApplyStep(w) ==
  \/ Duplicate(w) \/ Refuse(w) \/ Accept(w) \/ Move(w)
  \/ Record(w) \/ Persist(w) \/ Publish(w) \/ MarkPublished(w) \/ UpdatePortfolio(w)
  \/ Raise(w)

Next ==
  \/ \E w \in Workers, e \in Events : Arrive(w, e)
  \/ \E w \in Workers : ApplyStep(w)
  \/ FetchPending
  \/ \E e \in Events : Republish(e)
  \/ MarkRepublished
  \/ AbandonReplay
  \/ Crash

Spec == Init /\ [][Next]_vars

-----------------------------------------------------------------------------
(* A broker event reaches the portfolio at most once, whatever is repeated, *)
(* raced, failed or lost in a crash (OT-002, OT-006).                       *)
AppliedOnce == \A e \in Events : applied[e] <= 1

(* The order of effects survives every failure and restart: what is         *)
(* published is journaled, what is marked as published was published, and   *)
(* what reached the portfolio is marked, so that the outbox never drops an  *)
(* event nobody got (OT-003).                                               *)
OutboxIsHonest ==
  \A e \in Events :
    /\ delivered[e] > 0 => e \in recorded
    /\ e \in marked => delivered[e] > 0
    /\ applied[e] > 0 => e \in marked

(* The statuses that a sequence of transitions leads to.                    *)
Later(from, to) ==
  \/ from = to
  \/ from = "submitted"
  \/ from = "acknowledged" /\ to # "submitted"
  \/ from = "partially_filled" /\ to \in {"filled", "cancelled", "rejected", "expired"}

(* The stored trade only moves on along the lifecycle, and a final status   *)
(* is never replaced, although callbacks race and a restart may have to     *)
(* begin from an older status (OT-006).                                     *)
StoredMovesForward ==
  [][\A t \in Trades : Later(stored[t].status, stored'[t].status)]_vars

=============================================================================
