------------------------------- MODULE Migrations ------------------------------
(***************************************************************************)
(* The chain of schema migrations of SQLite databases                       *)
(* (infrastructure/database/migrations/): which tables each version creates *)
(* and drops, which ones of an older shape it rebuilds by renaming them and *)
(* copying their rows, and which it alters in place.                        *)
(***************************************************************************)
EXTENDS Naturals, Sequences, FiniteSets

CONSTANT Followed   \* bound: the tables that are followed, of those below

(* Parents come before the children that refer to them (_SPEC); a table     *)
(* that is not followed is never there.                                     *)
Research == <<"observations", "hypotheses", "research_tests", "research_results", "lessons">>
ResearchTables == {Research[k] : k \in DOMAIN Research} \cap Followed

(* The table that the rows of t refer to (_parent_for).                     *)
Refers(t, q) == \E k \in 2..Len(Research) : Research[k] = t /\ Research[k - 1] = q
Parent(t) ==
  IF t \in Followed /\ \E q \in ResearchTables : Refers(t, q)
    THEN CHOOSE q \in ResearchTables : Refers(t, q)
    ELSE "none"

(* A migration that creates its tables, and whose down drops them.          *)
Plain(v, names) ==
  [version |-> v, tables |-> names \cap Followed, drops |-> names \cap Followed, rebuilds |-> <<>>, alters |-> {}]

V001 == Plain(1, ResearchTables \cup
  {"market_data", "features", "correlations", "journal_entries", "liquidity_zones",
   "market_structure_events", "session_statistics", "risk_limits"})
V002 == Plain(2, {"audit_log", "metrics_history", "health_history", "run_manifest"})
V003 == Plain(3, {"strategy_registry"})

(* The column external_order_id of trades, where the table exists.          *)
V004 == [Plain(4, {}) EXCEPT !.alters = {"trades"} \cap Followed]
V005 == Plain(5, {"order_events"})

(* The legacy strategies table is rebuilt; down keeps strategies.           *)
V006 == [Plain(6, {"strategies", "operator_workflow", "workflow_transitions"}) EXCEPT
          !.drops = @ \ {"strategies"}, !.rebuilds = <<"strategies">>]
V007 == Plain(7, {"historical_candles"})
V008 == Plain(8, {"users", "user_sessions", "user_api_keys"})
V009 == Plain(9, {"experiments", "experiment_results", "knowledge_nodes", "knowledge_edges"})

(* The legacy research tables are rebuilt; down does nothing.               *)
V012 == [Plain(12, {}) EXCEPT !.rebuilds = Research]

Chain == {V001, V002, V003, V004, V005, V006, V007, V008, V009, V012}
Versions == {m.version : m \in Chain}
HeadVersion == 12
Migration == [v \in Versions |-> CHOOSE m \in Chain : m.version = v]
TablesUpTo == [v \in Versions |-> UNION {Migration[w].tables : w \in {u \in Versions : u <= v}}]
HeadTables == TablesUpTo[HeadVersion]

(* What the repositories create when a process builds them.                 *)
RepositoryTables == Followed \cap
  {"signals", "trades", "positions", "users", "user_sessions", "user_api_keys",
   "knowledge_nodes", "knowledge_edges", "observations", "hypotheses", "lessons",
   "experiments", "experiment_results", "strategies", "backtest_results",
   "operator_workflow", "workflow_transitions", "run_manifest"}

ASSUME FollowedAssumption == Followed \subseteq RepositoryTables \cup HeadTables
=============================================================================
