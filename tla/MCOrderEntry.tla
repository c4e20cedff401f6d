------------------------------ MODULE MCOrderEntry -----------------------------
(***************************************************************************)
(* OrderEntry, RiskRails and LiveEvents for TLC.  A behaviour is of one of  *)
(* them, its face: orders that overlap, the way from the settings to an     *)
(* order, or the pages that are told of the kill switch.  Retail orders,    *)
(* and the requests that publish, are alike.                                *)
(***************************************************************************)
EXTENDS OrderEntry, TLC

CONSTANTS
  Pages, QueueLen, Publishes,                        \* of LiveEvents
  Markets, Users, Files, Environments, Profiles,     \* of RiskRails
  Confidences, WinRates, Quantities, Ages, Gains,
  Balance, Failures, MaxGross, MaxDay, MaxRestarts

VARIABLES
  face,
  mode, yaml, env, own, trader, confirmed, rails, daySwitch, held, today, restarts,
  order, realized, stopped, forgotten,
  circuit, place, event, targets, slow, subscribers, queue, stream, told, published, doubt

live == <<circuit, place, event, targets, slow, subscribers, queue, stream, told, published, doubt>>
ruled == <<mode, yaml, env, own, trader, confirmed, rails, daySwitch, held, today, restarts,
           order, realized, stopped, forgotten>>

Symmetry == Permutations(Retail)

(* The sections a settings file may have: every rail, all but one, or one   *)
(* out of range; and the environment with one variable, good or not.        *)
Complete ==
  [daily |-> {10}, gross |-> {60}, position |-> {25}, count |-> {1}, staleness |-> {60},
   markets |-> {{"m1"}}, require |-> {TRUE}]
Nothing == [name \in DOMAIN Complete |-> {}]
Sections ==
  {Complete, Nothing, [Complete EXCEPT !.markets = {{}}], [Complete EXCEPT !.gross = {1001}]}
Variables ==
  {Nothing, [Nothing EXCEPT !.gross = {40}], [Nothing EXCEPT !.daily = {0}],
   [Nothing EXCEPT !.markets = {{"m2"}}, !.require = {FALSE}]}

MCProfiles ==
  {[gross |-> 100, position |-> 30, count |-> 2, daily |-> 5, markets |-> {"m2"},
    engaged |-> FALSE],
   [gross |-> 40, position |-> 50, count |-> 2, daily |-> 10, markets |-> {}, engaged |-> FALSE],
   [gross |-> 100, position |-> 50, count |-> 2, daily |-> 10, markets |-> {}, engaged |-> TRUE]}
MCWinRates == {{}, {60}}
MCGains == {-1, 1}

Rails == INSTANCE RiskRails
  WITH Cash <- Balance, MaxFailures <- Failures, switch <- daySwitch, halted <- stopped

Live == INSTANCE LiveEvents
  WITH Requests <- Retail, Tabs <- Pages, MaxLen <- QueueLen, MaxPublished <- Publishes,
       at <- place

(* A settings file or environment has each setting once or not at all.      *)
ASSUME FacesAssumption ==
  /\ QueueLen \in Nat /\ Publishes \in Nat
  /\ IsFiniteSet(Markets) /\ Balance \in Nat
  /\ Quantities \subseteq Nat /\ Confidences \subseteq Nat
  /\ Gains \subseteq Int /\ MaxDay \in Nat /\ MaxRestarts \in Nat
  /\ \A f \in Files \cup Environments :
       /\ DOMAIN f = Rails!Numbers \cup {"markets", "require"}
       /\ \A name \in DOMAIN f : \A v, w \in f[name] : v = w
  /\ \A p \in Profiles : p.daily \in Int

MCInit ==
  /\ face \in {"entry", "rails", "live"}
  /\ Init /\ Rails!Init /\ Live!Init
  /\ mode = "paper" => confirmed
  /\ face # "rails" => mode = "paper" /\ yaml = Nothing /\ env = Nothing /\ trader = {}
                       /\ own = [u \in Users |-> {}]

MCNext ==
  /\ UNCHANGED face
  /\ \/ face = "entry" /\ Next /\ UNCHANGED <<ruled, live>>
     \/ face = "rails" /\ Rails!Next /\ UNCHANGED <<vars, live>>
     \/ face = "live" /\ Live!Next /\ UNCHANGED <<vars, ruled>>

MCSpec == MCInit /\ [][MCNext]_<<face, vars, ruled, live>>

\* The properties of the other faces, stated in their modules.
PagesKnowTheSwitch == Live!PagesKnowTheSwitch
RailsHold == Rails!RailsHold

=============================================================================
