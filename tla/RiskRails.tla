------------------------------ MODULE RiskRails -------------------------------
(***************************************************************************)
(* From the settings to an order: which risk rails a process arms at boot   *)
(* (application/risk_config.py), whose rails an order is held to, and the   *)
(* gates before it (domain/services/risk_service.py, preflight_service.py,  *)
(* application/cycle_executor.py), for cycles and for retail orders.        *)
(*                                                                          *)
(* Abstractions.  Prices are 1, quantities and money are whole, shares are  *)
(* in percent.  A setting is a set: empty when it is not there or blank,    *)
(* else with its value; a text that is no number is a value out of range.   *)
(* Audit chain and reconciliation, which may refuse a cycle, do not here.   *)
(* The order that overlaps another is in OrderEntry: here they come one by  *)
(* one.  Of the persistent kill switch nothing is read but a limit that is  *)
(* never set, and nothing engages it.                                       *)
(***************************************************************************)
EXTENDS Integers, FiniteSets, FiniteSetsExt, Functions

CONSTANTS
  Markets,       \* the markets orders are for
  Users,         \* accounts, also the one the daemon trades for
  Files,         \* the risk sections that settings.yaml may have
  Environments,  \* the RISK_* variables that may be set
  Profiles,      \* the entries of risk.per_users that a user may have
  Confidences,   \* of a signal, in percent
  WinRates,      \* what the win rate provider may have measured, in percent
  Quantities,    \* of a retail order
  Ages,          \* of the last candle, in seconds
  Gains,         \* what a close may realize
  Cash,          \* the cash balance
  MaxFailures,   \* max_consecutive_failures
  MaxGross,      \* bound: no order beyond this exposure is tried
  MaxDay,        \* bound: days
  MaxRestarts    \* bound

VARIABLES
  mode, yaml, env, own, trader, confirmed,  \* how the process is started
  rails,      \* the armed rails, or none
  switch,     \* KillSwitch: failures, open, the day's result and which day
  held,       \* the position in each market
  today,      \* the date
  restarts,
  order,      \* the order that was just sent, or none
  realized,   \* history: what was realized today
  halted,     \* history: this process was, by the operator or its failures
  forgotten   \* history: a restart lost a result of today

settings == <<mode, yaml, env, own, trader, confirmed>>
vars == <<settings, rails, switch, held, today, restarts, order, realized, halted, forgotten>>

None == {}
Numbers == {"daily", "gross", "position", "count", "staleness"}
Explicit == Numbers \ {"staleness"}
Abs(n) == IF n < 0 THEN -n ELSE n
The(option) == CHOOSE v \in option : TRUE

NewSwitch == [failures |-> 0, open |-> FALSE, pnl |-> 0, day |-> today]

Init ==
  /\ mode \in {"paper", "live"} /\ yaml \in Files /\ env \in Environments
  /\ own \in [Users -> {None} \cup {{p} : p \in Profiles}]
  /\ trader \in {None} \cup {{u} : u \in Users}
  /\ confirmed \in BOOLEAN
  /\ rails = None
  /\ today = 0 /\ switch = NewSwitch
  /\ held = [m \in Markets |-> 0]
  /\ restarts = 0 /\ order = None
  /\ realized = 0 /\ halted = FALSE /\ forgotten = FALSE

-----------------------------------------------------------------------------
(* resolve_risk_rails.  The environment wins over the file.                 *)
Merged(name) == IF env[name] # None THEN env[name] ELSE yaml[name]

Sane == [daily |-> 1..100, gross |-> 1..1000, position |-> 1..100,
         count |-> 1..1000, staleness |-> 1..86400]

Default ==
  [daily |-> 2, gross |-> 100, position |-> 25, count |-> 10, staleness |-> 300]

(* LIVE needs every production rail, and an allowlist with something on it. *)
ArmsLive ==
  /\ \A name \in Explicit : Merged(name) # None
  /\ Merged("require") = {TRUE}
  /\ Merged("markets") \notin {None, {{}}}

Resolved ==
  [name \in Numbers \cup {"markets", "require"} |->
     LET raw == Merged(name) IN
     IF raw # None THEN The(raw)
     ELSE CASE name = "markets" -> {}
            [] name = "require" -> FALSE
            [] OTHER -> Default[name]]

(* build_orchestrator: an invalid value or a missing rail ends the boot.    *)
Boot ==
  /\ rails = None
  /\ \A name \in Numbers : Merged(name) \subseteq Sane[name]
  /\ mode = "live" => ArmsLive
  /\ rails' = {Resolved}
  /\ UNCHANGED <<settings, switch, held, today, restarts, order, realized, halted, forgotten>>

-----------------------------------------------------------------------------
(* KillSwitch.can_trade: the process has no daily limit in dollars.         *)
SwitchAllows == ~switch.open /\ switch.failures < MaxFailures

(* A user's own rails take the place of the process's; a user without any   *)
(* is refused, an order without a user is the process's.                    *)
Refused(user) == \E u \in user : own[u] = None \/ The(own[u]).engaged

Rail(name, user) ==
  IF user = None THEN The(rails)[name] ELSE The(own[The(user)])[name]

Positions == {m \in Markets : held[m] # 0}
Gross == SumFunction([m \in Markets |-> Abs(held[m])])
Equity == Cash + SumFunction(held)

(* RiskService.can_trade, which only cycles ask.                            *)
CanTrade(user) ==
  /\ ~Refused(user)
  /\ SwitchAllows
  /\ Cardinality(Positions) < Rail("count", user)

(* RiskService.authorize_order; age is that of the last candle, or none.    *)
Authorized(m, qty, age, user) ==
  /\ ~Refused(user)
  /\ Equity > 0
  /\ Abs(switch.pnl) * 100 < Equity * Rail("daily", user)
  /\ Rail("markets", user) # {} => m \in Rail("markets", user)
  /\ \A s \in age : s <= The(rails).staleness
  /\ qty * 100 <= Equity * Rail("position", user)
  /\ (Gross + qty) * 100 <= Equity * Rail("gross", user)
  /\ SwitchAllows

(* PreflightService.check.                                                  *)
Preflight ==
  /\ SwitchAllows
  /\ mode = "live" => confirmed /\ (The(rails).require => The(rails).markets # {})

(* assess_trade: a Kelly share above zero, for which win rate and           *)
(* confidence together must be more than certain.                           *)
Sized(confidence, winRate) ==
  \E w \in winRate : w \in 1..99 /\ w + confidence > 100

(* size_position: a fifth of the confidence, at most a quarter of the cash. *)
SizePosition(confidence) == (Cash * Min({confidence \div 5, 25})) \div 100

(* The data-gap breaker of a LIVE cycle.                                    *)
NoGap(age) == mode = "live" => age # None /\ \A s \in age : s <= The(rails).staleness

(* A fill is booked, a refusal by the broker counted, an exception neither. *)
Send(o, side) ==
  /\ Gross + o.qty <= MaxGross
  /\ order' = {o}
  /\ \/ /\ held' = [held EXCEPT ![o.market] = IF side = "buy" THEN @ + o.qty ELSE @ - o.qty]
        /\ switch' = [switch EXCEPT !.failures = 0]
        /\ UNCHANGED halted
     \/ /\ LET n == switch.failures + 1 IN
             /\ switch' = [switch EXCEPT !.failures = n, !.open = @ \/ n >= MaxFailures]
             /\ halted' = (halted \/ n >= MaxFailures)
        /\ UNCHANGED held
     \/ UNCHANGED <<held, switch, halted>>
  /\ UNCHANGED <<settings, rails, today, restarts, realized, forgotten>>

(* CycleExecutor.run for one signal.                                        *)
CycleOrder(m, side, confidence, winRate, age) ==
  LET qty == SizePosition(confidence) IN
  /\ rails # None
  /\ Sized(confidence, winRate)
  /\ NoGap(age)
  /\ Preflight
  /\ CanTrade(trader)
  /\ qty > 0
  /\ Authorized(m, qty, age, trader)
  /\ Send([user |-> trader, market |-> m, qty |-> qty, age |-> age], side)

(* retail_orders and submit_retail_order: on paper only, with the user of   *)
(* the session, and no candle to be stale.                                  *)
RetailOrder(u, m, side, qty) ==
  /\ rails # None
  /\ mode = "paper"
  /\ Authorized(m, qty, None, {u})
  /\ Send([user |-> {u}, market |-> m, qty |-> qty, age |-> None], side)

-----------------------------------------------------------------------------
(* Mutant: the day's result is never begun anew.                            *)
RealizedAllDays(pnl) == [switch EXCEPT !.pnl = @ + pnl]

(* KillSwitch.record_realized_pnl: a new day starts with its first result.  *)
Realized(pnl) ==
  [switch EXCEPT !.day = today,
                 !.pnl = IF switch.day = today THEN @ + pnl ELSE pnl]

(* PortfolioService.close_position.                                         *)
ClosePosition(m, pnl) ==
  /\ rails # None
  /\ held[m] # 0
  /\ held' = [held EXCEPT ![m] = 0]
  /\ switch' = Realized(pnl)
  /\ realized' = realized + pnl
  /\ order' = None
  /\ UNCHANGED <<settings, rails, today, restarts, halted, forgotten>>

NextDay ==
  /\ today < MaxDay
  /\ today' = today + 1
  /\ realized' = 0
  /\ forgotten' = FALSE
  /\ order' = None
  /\ UNCHANGED <<settings, rails, switch, held, restarts, halted>>

(* The operator's endpoints of this process.                                *)
Engage ==
  /\ rails # None
  /\ switch' = [switch EXCEPT !.open = TRUE]
  /\ halted' = TRUE
  /\ order' = None
  /\ UNCHANGED <<settings, rails, held, today, restarts, realized, forgotten>>

Disengage ==
  /\ rails # None
  /\ switch' = [switch EXCEPT !.open = FALSE, !.failures = 0]
  /\ halted' = FALSE
  /\ order' = None
  /\ UNCHANGED <<settings, rails, held, today, restarts, realized, forgotten>>

(* The process ends and is started again with the same settings.            *)
Restart ==
  /\ rails # None /\ restarts < MaxRestarts
  /\ restarts' = restarts + 1
  /\ rails' = None
  /\ switch' = NewSwitch
  /\ halted' = FALSE
  /\ forgotten' = (forgotten \/ realized # 0)
  /\ order' = None
  /\ UNCHANGED <<settings, held, today, realized>>

Next ==
  \/ Boot \/ NextDay \/ Engage \/ Disengage \/ Restart
  \/ \E m \in Markets, side \in {"buy", "sell"} :
       \/ \E c \in Confidences, w \in WinRates, age \in {None} \cup {{s} : s \in Ages} :
            CycleOrder(m, side, c, w, age)
       \/ \E u \in Users, qty \in Quantities : RetailOrder(u, m, side, qty)
  \/ \E m \in Markets, pnl \in Gains : ClosePosition(m, pnl)

Spec == Init /\ [][Next]_vars

-----------------------------------------------------------------------------
(* What the trader or the operator has set for a rail, wherever it stands.  *)
Set(name, user) ==
  IF user # None THEN The(own[The(user)])[name]
  ELSE IF env[name] # None THEN The(env[name])
  ELSE IF yaml[name] # None THEN The(yaml[name])
  ELSE IF name = "markets" THEN {} ELSE Default[name]

(* "Fail-closed by construction" (risk_config.py): an order that is sent,   *)
(* whatever was set where, whoever it is for, and whatever was lost on the  *)
(* days before, is for a market on the list that binds it, which in LIVE is *)
(* never everything unless the trader's own list is; it keeps the exposure  *)
(* with it under the cap that binds it; and it is not sent on a day that    *)
(* has lost its share, unless a restart forgot it, or while it is halted.   *)
RailsHold ==
  [][\A o \in order' \ order :
       LET list == Set("markets", o.user) IN
       /\ o.market \in list \/ (list = {} /\ (mode = "live" => o.user # None))
       /\ (Gross + o.qty) * 100 <= Equity * Set("gross", o.user)
       /\ ~halted
       /\ forgotten \/ Abs(realized) * 100 < Equity * Set("daily", o.user)
       /\ \A s \in o.age : s <= Set("staleness", None)
       /\ \A u \in o.user : own[u] # None]_vars

=============================================================================
