--------------------------- MODULE Repositories ---------------------------
(***************************************************************************)
(* The repositories of the domain model (infrastructure/repositories/):    *)
(* each entity has an in-memory store and an SQLite one, and most have a   *)
(* PostgreSQL one.  A program is written against the interface and meets   *)
(* whichever store the database setting selects, so the three must answer  *)
(* alike.  Here the in-memory store and one SQL table of one entity are    *)
(* driven by the same calls and then asked everything there is to ask.     *)
(*                                                                         *)
(* An entity is a function from field names to values, and a value is a    *)
(* token: a field that no query looks at holds its own name, so a column   *)
(* that is read into the wrong field shows.  The order of a list and a     *)
(* repeated element of one are left out; an answer that is a single row    *)
(* is given as the rows it can be.                                         *)
(***************************************************************************)
EXTENDS Naturals, Sequences, FiniteSets, Functions

CONSTANTS Kinds,      \* the entities of the run
          Ids,        \* identities of entities
          MaxDepth    \* the deepest neighbourhood asked for

VARIABLES kind,       \* the entity stored
          backend,    \* "sqlite" or "postgres"
          altered,    \* a column of the table was added by ALTER TABLE
          mem,        \* entities in the in-memory store
          rows,       \* rows of the SQL table
          misuse      \* identities the two stores were told to treat apart

vars == <<kind, backend, altered, mem, rows, misuse>>

-----------------------------------------------------------------------------
(* The tables.  "columns" is the order of CREATE TABLE, "reads" the field   *)
(* that _from_row takes from each position, "single" the columns declared   *)
(* REAL, which on PostgreSQL is single precision, and "blank" those where   *)
(* _to_row stores an empty value as NULL.                                   *)

Table(columns, reads, single, blank) ==
  [columns |-> columns, reads |-> reads, single |-> single, blank |-> blank]

\* SQLite rows are read by column name and its REAL is a double.
Named(columns, blank) == Table(columns, columns, {}, blank)

SQLiteTradeTable ==
  Named(<<"id", "signal_id", "market_id", "side", "quantity", "price", "status",
          "filled_quantity", "filled_price", "filled_at", "external_order_id",
          "created_at", "updated_at">>, {})
SQLitePositionTable ==
  Named(<<"id", "market_id", "quantity", "entry_price", "current_price", "pnl",
          "realized_pnl", "created_at", "updated_at">>, {})
SQLiteSignalTable ==
  Named(<<"id", "market_id", "strategy_id", "direction", "confidence",
          "generated_at", "expires_at">>, {})
SQLiteStrategyTable ==
  Named(<<"id", "name", "params", "version", "status", "created_at", "template">>, {})
SQLiteBacktestResultTable ==
  Named(<<"id", "strategy_id", "market_id", "total_return", "sharpe_ratio",
          "sortino_ratio", "calmar_ratio", "max_drawdown", "win_rate",
          "profit_factor", "total_trades", "expectancy", "recovery_factor",
          "equity_curve", "period_start", "period_end", "created_at">>, {})
SQLiteObservationTable ==
  Named(<<"id", "timestamp", "symbol", "content", "tags">>, {})
SQLiteHypothesisTable ==
  Named(<<"id", "observation_id", "content", "status", "created_at">>, {})
SQLiteExperimentTable ==
  Named(<<"id", "hypothesis_id", "params", "results", "created_at">>, {"results"})
SQLiteExperimentResultTable ==
  Named(<<"id", "experiment_id", "metrics", "visual_path", "created_at">>, {})
SQLiteLessonTable ==
  Named(<<"id", "result_id", "content", "tags", "created_at">>, {})
SQLiteKnowledgeNodeTable ==
  Named(<<"id", "label", "node_type", "content", "embedding", "created_at">>,
        {"embedding"})
SQLiteKnowledgeEdgeTable ==
  Named(<<"id", "source_id", "target_id", "relationship", "weight", "created_at">>, {})
SQLiteIndicatorTable ==
  Named(<<"id", "market_id", "timestamp", "name", "value">>, {})
SQLiteLiquidityZoneTable ==
  Named(<<"id", "market_id", "price_level", "zone_type", "strength", "detected_at">>, {})
SQLiteMarketTable ==
  Named(<<"id", "symbol", "asset_class", "exchange", "status", "created_at">>, {})
SQLiteCandleTable ==
  Named(<<"id", "market_id", "open", "high", "low", "close", "volume", "timestamp",
          "timeframe", "source">>, {})

PostgresTradeTable ==
  Table(<<"id", "signal_id", "market_id", "side", "quantity", "price", "status",
          "filled_quantity", "filled_price", "filled_at", "external_order_id",
          "created_at", "updated_at">>,
        <<"id", "signal_id", "market_id", "side", "quantity", "price", "status",
          "filled_quantity", "filled_price", "filled_at", "external_order_id",
          "created_at", "updated_at">>,
        {"quantity", "price", "filled_quantity", "filled_price"}, {})
PostgresPositionTable ==
  Table(<<"id", "market_id", "quantity", "entry_price", "current_price", "pnl",
          "realized_pnl", "created_at", "updated_at">>,
        <<"id", "market_id", "quantity", "entry_price", "current_price", "pnl",
          "realized_pnl", "created_at", "updated_at">>,
        {"quantity", "entry_price", "current_price", "pnl", "realized_pnl"}, {})
\* Mutant: the two times are read from each other's column.
PostgresSignalTableCrossed ==
  Table(<<"id", "market_id", "strategy_id", "direction", "confidence",
          "generated_at", "expires_at">>,
        <<"id", "market_id", "strategy_id", "direction", "confidence",
          "expires_at", "generated_at">>, {"confidence"}, {})
PostgresSignalTable ==
  Table(<<"id", "market_id", "strategy_id", "direction", "confidence",
          "generated_at", "expires_at">>,
        <<"id", "market_id", "strategy_id", "direction", "confidence",
          "generated_at", "expires_at">>, {"confidence"}, {})
PostgresStrategyTable ==
  Table(<<"id", "name", "params", "version", "status", "template", "created_at">>,
        <<"id", "name", "params", "version", "status", "template", "created_at">>,
        {}, {})
PostgresBacktestResultTable ==
  LET columns == <<"id", "strategy_id", "market_id", "total_return", "sharpe_ratio",
                   "sortino_ratio", "calmar_ratio", "max_drawdown", "win_rate",
                   "profit_factor", "total_trades", "expectancy", "recovery_factor",
                   "equity_curve", "period_start", "period_end", "created_at">>
  IN  Table(columns,
            <<"id", "strategy_id", "market_id", "total_return", "sharpe_ratio",
              "sortino_ratio", "calmar_ratio", "max_drawdown", "win_rate",
              "profit_factor", "total_trades", "expectancy", "recovery_factor",
              "equity_curve", "period_start", "period_end", "created_at">>,
            {columns[i] : i \in (4..10) \cup {12, 13}}, {})
PostgresObservationTable ==
  Table(<<"id", "timestamp", "symbol", "content", "tags">>,
        <<"id", "timestamp", "symbol", "content", "tags">>, {}, {})
PostgresHypothesisTable ==
  Table(<<"id", "observation_id", "content", "status", "created_at">>,
        <<"id", "observation_id", "content", "status", "created_at">>, {}, {})
PostgresExperimentTable ==
  Table(<<"id", "hypothesis_id", "params", "results", "created_at">>,
        <<"id", "hypothesis_id", "params", "results", "created_at">>, {}, {"results"})
PostgresExperimentResultTable ==
  Table(<<"id", "experiment_id", "metrics", "visual_path", "created_at">>,
        <<"id", "experiment_id", "metrics", "visual_path", "created_at">>, {}, {})
PostgresLessonTable ==
  Table(<<"id", "result_id", "content", "tags", "created_at">>,
        <<"id", "result_id", "content", "tags", "created_at">>, {}, {})
PostgresKnowledgeNodeTable ==
  Table(<<"id", "label", "node_type", "content", "embedding", "created_at">>,
        <<"id", "label", "node_type", "content", "embedding", "created_at">>,
        {}, {"embedding"})
PostgresKnowledgeEdgeTable ==
  Table(<<"id", "source_id", "target_id", "relationship", "weight", "created_at">>,
        <<"id", "source_id", "target_id", "relationship", "weight", "created_at">>,
        {"weight"}, {})

-----------------------------------------------------------------------------
(* The questions.  q.ask is the method, q.of and q.in its arguments.  An    *)
(* operator answers with the entities found in S, a set of entities.        *)

Having(S, field, v) == {e \in S : e[field] = v}

\* Times are the tokens of this sequence, in order.
Clock == <<"t1", "t2", "t3">>
At(t) == CHOOSE i \in DOMAIN Clock : Clock[i] = t
Now == "t2"

\* The rows that the newest n of S can be.
Newest(S, n) ==
  {e \in S : Cardinality({d \in S : At(d.timestamp) > At(e.timestamp)}) < n}
Within(S, field, q) == {e \in S : At(q.from) <= At(e[field]) /\ At(e[field]) <= At(q.to)}

OpenTradeStatuses == {"pending", "submitted", "acknowledged", "partially_filled"}

\* The tags of a lesson: a token for the list, and the texts of its tags, of
\* which "FX" is "fx" in capitals and "accented" has a letter beyond ASCII.
Tags == [none |-> {}, fx |-> {"fx"}, capitals |-> {"FX"}, swing |-> {"fx-swing"},
         both |-> {"fx", "fx-swing"}, accented |-> {"accented"}, mixed |-> {"FX", "accented"}]
TagTexts == {"fx", "FX", "fx-swing", "accented", "%"}

\* json.dumps writes the quotes, the backslashes and the letters beyond ASCII of
\* a text as escapes, in which the text itself is not found.
Dumped(text) == IF text = "accented" THEN "escaped" ELSE text

\* Texts of a knowledge node are "gap" and "wave", which has a letter beyond
\* ASCII.  Lower is str.lower(), Folded what LIKE ignores on SQLite: ASCII only.
Folded(text) == CASE text = "FX" -> "fx" [] text = "Gap" -> "gap" [] OTHER -> text
Lower(text) == IF text = "Wave" THEN "wave" ELSE Folded(text)

\* LIKE '%text%', in which the sign "%" of a text stands for anything.
Like(stored, text) == text \in {stored, "%"} \/ <<stored, text>> = <<"fx-swing", "fx">>

\* Edges name the nodes n1, n2 and n3, of which the last was deleted.
Nodes == {"n1", "n2", "n3"}
StoredNodes == {"n1", "n2"}

\* The market of a symbol, for the candles of a symbol.
MarketOf == [BTC |-> "m1", none |-> "no market"]

---- (* In memory. *)
InMemoryTradeRepository(q, S) ==
  CASE q.ask = "get_by_signal" -> Having(S, "signal_id", q.of)
    [] q.ask = "get_by_market" -> Having(S, "market_id", q.of)
    [] q.ask = "get_open"      -> {e \in S : e.status \in OpenTradeStatuses}
InMemoryPositionRepository(q, S) ==
  CASE q.ask = "get_by_market" -> Having(S, "market_id", q.of)
    [] q.ask = "list_open"     -> {e \in S : e.quantity # "zero"}
InMemorySignalRepository(q, S) ==
  CASE q.ask = "get_active" ->
         {e \in Having(S, "market_id", q.of) : At(e.expires_at) > At(Now)}
    [] q.ask = "get_by_strategy" -> Having(S, "strategy_id", q.of)
    [] q.ask = "get_range" -> Within(Having(S, "market_id", q.of), "generated_at", q)
InMemoryStrategyRepository(q, S) ==
  CASE q.ask = "get_by_name" -> Having(S, "name", q.of)
    [] q.ask = "list_active" -> Having(S, "status", "active")
InMemoryBacktestResultRepository(q, S) ==
  CASE q.ask = "get_by_strategy" -> Having(S, "strategy_id", q.of)
    [] q.ask = "get_by_market"   -> Having(S, "market_id", q.of)
InMemoryObservationRepository(q, S) == Having(S, "symbol", q.of)
InMemoryHypothesisRepository(q, S) == Having(S, "observation_id", q.of)
InMemoryExperimentRepository(q, S) == Having(S, "hypothesis_id", q.of)
InMemoryExperimentResultRepository(q, S) == Having(S, "experiment_id", q.of)
InMemoryLessonRepository(q, S) ==
  CASE q.ask = "get_by_result" -> Having(S, "result_id", q.of)
    [] q.ask = "get_by_tags"   -> {e \in S : Tags[e.tags] \cap q.of # {}}
InMemoryKnowledgeNodeRepository(q, S) ==
  CASE q.ask = "get_by_label" -> Having(S, "label", q.of)
    [] q.ask = "get_by_type"  -> Having(S, "node_type", q.of)
    [] q.ask = "search"       -> {e \in S : Lower(q.of) \in {Lower(e.label), Lower(e.content)}}
InMemoryKnowledgeEdgeRepository(q, S) ==
  CASE q.ask = "get_by_source" -> Having(S, "source_id", q.of)
    [] q.ask = "get_by_target" -> Having(S, "target_id", q.of)
    [] q.ask = "get_neighbors" -> {}
InMemoryIndicatorRepository(q, S) ==
  LET named == Having(Having(S, "market_id", q.of), "name", q.in)
  IN  CASE q.ask = "get_by_name" -> named
        [] q.ask = "get_latest"  -> Newest(named, 1)
InMemoryMarketRepository(q, S) ==
  CASE q.ask = "get_by_symbol" -> Having(S, "symbol", q.of)
    [] q.ask = "list_active"   -> Having(S, "status", "active")
InMemoryCandleRepository(q, S) ==
  CASE q.ask = "get_range"  -> Within(Having(S, "market_id", q.of), "timestamp", q)
    [] q.ask = "get_latest" -> Newest(Having(S, "market_id", q.of), q.limit)
InMemoryMarketDataRepository(q, S) ==
  LET asked == [q EXCEPT !.of = MarketOf[q.of], !.ask = q.then]
  IN  IF MarketOf[q.of] = "no market" THEN {} ELSE InMemoryCandleRepository(asked, S)

---- (* SQLite. *)
SQLiteTradeRepository(q, S) ==
  CASE q.ask = "get_by_signal" -> Having(S, "signal_id", q.of)
    [] q.ask = "get_by_market" -> Having(S, "market_id", q.of)
    [] q.ask = "get_open"      -> {e \in S : e.status \in OpenTradeStatuses}
SQLitePositionRepository(q, S) ==
  CASE q.ask = "get_by_market" -> Having(S, "market_id", q.of)
    [] q.ask = "list_open"     -> {e \in S : e.quantity # "zero"}
SQLiteSignalRepository(q, S) ==
  CASE q.ask = "get_active" ->
         {e \in Having(S, "market_id", q.of) : At(e.expires_at) > At(Now)}
    [] q.ask = "get_by_strategy" -> Having(S, "strategy_id", q.of)
    [] q.ask = "get_range" -> Within(Having(S, "market_id", q.of), "generated_at", q)
SQLiteStrategyRepository(q, S) ==
  CASE q.ask = "get_by_name" -> Having(S, "name", q.of)
    [] q.ask = "list_active" -> Having(S, "status", "active")
SQLiteBacktestResultRepository(q, S) ==
  CASE q.ask = "get_by_strategy" -> Having(S, "strategy_id", q.of)
    [] q.ask = "get_by_market"   -> Having(S, "market_id", q.of)
SQLiteObservationRepository(q, S) == Having(S, "symbol", q.of)
SQLiteHypothesisRepository(q, S) == Having(S, "observation_id", q.of)
SQLiteExperimentRepository(q, S) == Having(S, "hypothesis_id", q.of)
SQLiteExperimentResultRepository(q, S) == Having(S, "experiment_id", q.of)
\* One query a tag, over the list of tags in JSON, the empty one included.
SQLiteLessonRepository(q, S) ==
  CASE q.ask = "get_by_result" -> Having(S, "result_id", q.of)
    [] q.ask = "get_by_tags" ->
         {e \in S : \E t \in q.of, tag \in Tags[e.tags] \cup {"[]"} :
                    Like(Folded(Dumped(tag)), Folded(t))}
\* LIKE of SQLite ignores case.
SQLiteKnowledgeNodeRepository(q, S) ==
  CASE q.ask = "get_by_label" -> Having(S, "label", q.of)
    [] q.ask = "get_by_type"  -> Having(S, "node_type", q.of)
    [] q.ask = "search" ->
         {e \in S : \E text \in {e.label, e.content} : Like(Folded(text), Folded(q.of))}

\* get_neighbors: level by level from the node, along edges of S either way.
\* A level is what was visited and the frontier that is asked for next.
Levels(S, node, depth) ==
  LET next(l) == LET met == {e \in S : {e.source_id, e.target_id} \cap l.frontier # {}}
                     new == {e.source_id : e \in met} \cup {e.target_id : e \in met}
                 IN  [visited |-> l.visited \cup new, frontier |-> new \ l.visited]
      level[i \in 0..depth] == IF i = 0 THEN [visited |-> {node}, frontier |-> {node}]
                               ELSE next(level[i - 1])
  IN  level

\* The visited nodes that the nodes table still holds.
SQLiteNeighbors(S, node, depth) ==
  (Levels(S, node, depth)[depth].visited \ {node}) \cap StoredNodes
SQLiteKnowledgeEdgeRepository(q, S) ==
  CASE q.ask = "get_by_source" -> Having(S, "source_id", q.of)
    [] q.ask = "get_by_target" -> Having(S, "target_id", q.of)
    [] q.ask = "get_neighbors" -> SQLiteNeighbors(S, q.of, q.depth)
SQLiteIndicatorRepository(q, S) ==
  LET named == Having(Having(S, "market_id", q.of), "name", q.in)
  IN  CASE q.ask = "get_by_name" -> named
        [] q.ask = "get_latest"  -> Newest(named, 1)
SQLiteMarketRepository(q, S) ==
  CASE q.ask = "get_by_symbol" -> Having(S, "symbol", q.of)
    [] q.ask = "list_active"   -> Having(S, "status", "active")
SQLiteCandleRepository(q, S) ==
  CASE q.ask = "get_range"  -> Within(Having(S, "market_id", q.of), "timestamp", q)
    [] q.ask = "get_latest" -> Newest(Having(S, "market_id", q.of), q.limit)
SQLiteMarketDataRepository(q, S) ==
  LET asked == [q EXCEPT !.of = MarketOf[q.of], !.ask = q.then]
  IN  IF MarketOf[q.of] = "no market" THEN {} ELSE SQLiteCandleRepository(asked, S)

---- (* PostgreSQL. *)
PostgresTradeRepository(q, S) ==
  CASE q.ask = "get_by_signal" -> Having(S, "signal_id", q.of)
    [] q.ask = "get_by_market" -> Having(S, "market_id", q.of)
    [] q.ask = "get_open"      -> {e \in S : e.status \in OpenTradeStatuses}
PostgresPositionRepository(q, S) ==
  CASE q.ask = "get_by_market" -> Having(S, "market_id", q.of)
    [] q.ask = "list_open"     -> {e \in S : e.quantity # "zero"}
PostgresSignalRepository(q, S) ==
  CASE q.ask = "get_active" ->
         {e \in Having(S, "market_id", q.of) : At(e.expires_at) > At(Now)}
    [] q.ask = "get_by_strategy" -> Having(S, "strategy_id", q.of)
    [] q.ask = "get_range" -> Within(Having(S, "market_id", q.of), "generated_at", q)
PostgresStrategyRepository(q, S) ==
  CASE q.ask = "get_by_name" -> Having(S, "name", q.of)
    [] q.ask = "list_active" -> {e \in S : e.status \in {"active", "promoted"}}
PostgresBacktestResultRepository(q, S) ==
  CASE q.ask = "get_by_strategy" -> Having(S, "strategy_id", q.of)
    [] q.ask = "get_by_market"   -> Having(S, "market_id", q.of)
PostgresObservationRepository(q, S) == Having(S, "symbol", q.of)
PostgresHypothesisRepository(q, S) == Having(S, "observation_id", q.of)
PostgresExperimentRepository(q, S) == Having(S, "hypothesis_id", q.of)
PostgresExperimentResultRepository(q, S) == Having(S, "experiment_id", q.of)
PostgresLessonRepository(q, S) ==
  CASE q.ask = "get_by_result" -> Having(S, "result_id", q.of)
    [] q.ask = "get_by_tags" ->
         {e \in S : \E t \in q.of, tag \in Tags[e.tags] \cup {"[]"} : Like(Dumped(tag), t)}
\* LIKE of PostgreSQL does not ignore case.
PostgresKnowledgeNodeRepository(q, S) ==
  CASE q.ask = "get_by_label" -> Having(S, "label", q.of)
    [] q.ask = "get_by_type"  -> Having(S, "node_type", q.of)
    [] q.ask = "search"       -> {e \in S : \E text \in {e.label, e.content} : Like(text, q.of)}
PostgresNeighbors(S, node, depth) ==
  StoredNodes \cap (Levels(S, node, depth)[depth].visited \ {node})
PostgresKnowledgeEdgeRepository(q, S) ==
  CASE q.ask = "get_by_source" -> Having(S, "source_id", q.of)
    [] q.ask = "get_by_target" -> Having(S, "target_id", q.of)
    [] q.ask = "get_neighbors" -> PostgresNeighbors(S, q.of, q.depth)
\* An empty frontier is sent as IN (), which PostgreSQL refuses to parse.
PostgresNeighborsRaise(S, node, depth) ==
  \E i \in 1..(depth - 1) : Levels(S, node, depth)[i].frontier = {}

-----------------------------------------------------------------------------
(* One entity's table and its answers, by backend. *)

SQLiteTable(k) ==
  CASE k = "trades"       -> SQLiteTradeTable
    [] k = "positions"    -> SQLitePositionTable
    [] k = "signals"      -> SQLiteSignalTable
    [] k = "strategies"   -> SQLiteStrategyTable
    [] k = "backtests"    -> SQLiteBacktestResultTable
    [] k = "observations" -> SQLiteObservationTable
    [] k = "hypotheses"   -> SQLiteHypothesisTable
    [] k = "experiments"  -> SQLiteExperimentTable
    [] k = "results"      -> SQLiteExperimentResultTable
    [] k = "lessons"      -> SQLiteLessonTable
    [] k = "nodes"        -> SQLiteKnowledgeNodeTable
    [] k = "edges"        -> SQLiteKnowledgeEdgeTable
    [] k = "indicators"   -> SQLiteIndicatorTable
    [] k = "zones"        -> SQLiteLiquidityZoneTable
    [] k = "markets"      -> SQLiteMarketTable
    [] k = "candles"      -> SQLiteCandleTable
PostgresTable(k) ==
  CASE k = "trades"       -> PostgresTradeTable
    [] k = "positions"    -> PostgresPositionTable
    [] k = "signals"      -> PostgresSignalTable
    [] k = "strategies"   -> PostgresStrategyTable
    [] k = "backtests"    -> PostgresBacktestResultTable
    [] k = "observations" -> PostgresObservationTable
    [] k = "hypotheses"   -> PostgresHypothesisTable
    [] k = "experiments"  -> PostgresExperimentTable
    [] k = "results"      -> PostgresExperimentResultTable
    [] k = "lessons"      -> PostgresLessonTable
    [] k = "nodes"        -> PostgresKnowledgeNodeTable
    [] k = "edges"        -> PostgresKnowledgeEdgeTable
OnlySQLite == {"indicators", "zones", "markets", "candles"}
TableOf(b, k) == IF b = "sqlite" THEN SQLiteTable(k) ELSE PostgresTable(k)

InMemory(k, q, S) ==
  CASE q.ask = "get"  -> Having(S, "id", q.of)
    [] q.ask = "list" -> S
    [] q.ask = "get_candles" -> InMemoryMarketDataRepository(q, S)
    [] OTHER ->
       CASE k = "trades"       -> InMemoryTradeRepository(q, S)
         [] k = "positions"    -> InMemoryPositionRepository(q, S)
         [] k = "signals"      -> InMemorySignalRepository(q, S)
         [] k = "strategies"   -> InMemoryStrategyRepository(q, S)
         [] k = "backtests"    -> InMemoryBacktestResultRepository(q, S)
         [] k = "observations" -> InMemoryObservationRepository(q, S)
         [] k = "hypotheses"   -> InMemoryHypothesisRepository(q, S)
         [] k = "experiments"  -> InMemoryExperimentRepository(q, S)
         [] k = "results"      -> InMemoryExperimentResultRepository(q, S)
         [] k = "lessons"      -> InMemoryLessonRepository(q, S)
         [] k = "nodes"        -> InMemoryKnowledgeNodeRepository(q, S)
         [] k = "edges"        -> InMemoryKnowledgeEdgeRepository(q, S)
         [] k = "indicators"   -> InMemoryIndicatorRepository(q, S)
         [] k = "markets"      -> InMemoryMarketRepository(q, S)
         [] k = "candles"      -> InMemoryCandleRepository(q, S)

SQLite(k, q, S) ==
  CASE q.ask = "get"  -> Having(S, "id", q.of)
    [] q.ask = "list" -> S
    [] q.ask = "get_candles" -> SQLiteMarketDataRepository(q, S)
    [] OTHER ->
       CASE k = "trades"       -> SQLiteTradeRepository(q, S)
         [] k = "positions"    -> SQLitePositionRepository(q, S)
         [] k = "signals"      -> SQLiteSignalRepository(q, S)
         [] k = "strategies"   -> SQLiteStrategyRepository(q, S)
         [] k = "backtests"    -> SQLiteBacktestResultRepository(q, S)
         [] k = "observations" -> SQLiteObservationRepository(q, S)
         [] k = "hypotheses"   -> SQLiteHypothesisRepository(q, S)
         [] k = "experiments"  -> SQLiteExperimentRepository(q, S)
         [] k = "results"      -> SQLiteExperimentResultRepository(q, S)
         [] k = "lessons"      -> SQLiteLessonRepository(q, S)
         [] k = "nodes"        -> SQLiteKnowledgeNodeRepository(q, S)
         [] k = "edges"        -> SQLiteKnowledgeEdgeRepository(q, S)
         [] k = "indicators"   -> SQLiteIndicatorRepository(q, S)
         [] k = "markets"      -> SQLiteMarketRepository(q, S)
         [] k = "candles"      -> SQLiteCandleRepository(q, S)

Postgres(k, q, S) ==
  CASE q.ask = "get"  -> Having(S, "id", q.of)
    [] q.ask = "list" -> S
    [] OTHER ->
       CASE k = "trades"       -> PostgresTradeRepository(q, S)
         [] k = "positions"    -> PostgresPositionRepository(q, S)
         [] k = "signals"      -> PostgresSignalRepository(q, S)
         [] k = "strategies"   -> PostgresStrategyRepository(q, S)
         [] k = "backtests"    -> PostgresBacktestResultRepository(q, S)
         [] k = "observations" -> PostgresObservationRepository(q, S)
         [] k = "hypotheses"   -> PostgresHypothesisRepository(q, S)
         [] k = "experiments"  -> PostgresExperimentRepository(q, S)
         [] k = "results"      -> PostgresExperimentResultRepository(q, S)
         [] k = "lessons"      -> PostgresLessonRepository(q, S)
         [] k = "nodes"        -> PostgresKnowledgeNodeRepository(q, S)
         [] k = "edges"        -> PostgresKnowledgeEdgeRepository(q, S)

-----------------------------------------------------------------------------
(* What can be stored and asked.  Fields a query looks at vary, and so do   *)
(* those whose conversion may lose something: "long" is a number of more    *)
(* digits than single precision keeps, "dated" a dictionary with a time in  *)
(* it, or anything else that JSON has no form for.                          *)

Ticks == {"t1", "t2", "t3"}
Varying(k) ==
  CASE k = "trades" -> [signal_id |-> {"s1", "s2"}, quantity |-> {"one", "long"},
                        status |-> {"pending", "partially_filled", "filled"}]
    [] k = "positions"    -> [market_id |-> {"m1", "m2"}, quantity |-> {"zero", "one", "long"}]
    [] k = "signals"      -> [market_id |-> {"m1"}, generated_at |-> Ticks, expires_at |-> Ticks]
    [] k = "strategies"   -> [name |-> {"x", "y"}, status |-> {"draft", "active", "promoted"},
                              params |-> {"plain", "dated"}]
    [] k = "backtests"    -> [strategy_id |-> {"s1", "s2"}, market_id |-> {"m1", "m2"}]
    [] k = "observations" -> [symbol |-> {"a", "b"}]
    [] k = "hypotheses"   -> [observation_id |-> {"a", "b"}]
    [] k = "experiments"  -> [hypothesis_id |-> {"a", "b"}, params |-> {"plain", "dated"},
                              results |-> {"empty", "plain", "dated"}]
    [] k = "results"      -> [experiment_id |-> {"a", "b"}, metrics |-> {"plain", "dated"}]
    [] k = "lessons"      -> [result_id |-> {"a", "b"}, tags |-> DOMAIN Tags]
    [] k = "nodes"        -> [label |-> {"Gap", "gap", "Wave"}, content |-> {"gap", "wave"},
                              embedding |-> {"empty", "some"}]
    [] k = "edges"        -> [source_id |-> Nodes, target_id |-> Nodes]
    [] k = "indicators"   -> [market_id |-> {"m1"}, name |-> {"a", "b"}, timestamp |-> Ticks]
    [] k = "zones"        -> [zone_type |-> {"support", "resistance"}]
    [] k = "markets"      -> [symbol |-> {"a", "b"}, status |-> {"active", "halted"}]
    [] k = "candles"      -> [market_id |-> {"m1", "m2"}, timestamp |-> Ticks]

Fields(k) == Range(SQLiteTable(k).columns)
Entities(k) ==
  LET V == Varying(k)
      picks == {p \in [DOMAIN V -> UNION Range(V)] : \A f \in DOMAIN V : p[f] \in V[f]}
  IN  {[f \in Fields(k) |-> IF f = "id" THEN id ELSE IF f \in DOMAIN V THEN p[f] ELSE f] :
          id \in Ids, p \in picks}

Asks(asks, of) == [ask : asks, of : of]
Spans == [ask : {"get_range"}, of : {"m1"}, from : Ticks, to : Ticks]
Queries(k) ==
  Asks({"get"}, Ids) \cup Asks({"list"}, {""}) \cup
  CASE k = "trades" -> Asks({"get_by_signal"}, {"s1", "s2"}) \cup Asks({"get_open"}, {""})
    [] k = "positions" -> Asks({"get_by_market"}, {"m1", "m2"}) \cup Asks({"list_open"}, {""})
    [] k = "signals" -> Asks({"get_active"}, {"m1"}) \cup Spans
    [] k = "strategies" -> Asks({"get_by_name"}, {"x", "y"}) \cup Asks({"list_active"}, {""})
    [] k = "backtests" -> Asks({"get_by_strategy"}, {"s1"}) \cup Asks({"get_by_market"}, {"m1"})
    [] k = "observations" -> Asks({"get_by_symbol"}, {"a"})
    [] k = "hypotheses" -> Asks({"get_by_observation"}, {"a"})
    [] k = "experiments" -> Asks({"get_by_hypothesis"}, {"a"})
    [] k = "results" -> Asks({"get_by_experiment"}, {"a"})
    [] k = "lessons" -> Asks({"get_by_result"}, {"a"}) \cup
                        Asks({"get_by_tags"}, SUBSET TagTexts)
    [] k = "nodes" -> Asks({"get_by_label"}, {"gap", "Gap"}) \cup
                      Asks({"search"}, {"gap", "Gap", "wave", "Wave", "%"})
    [] k = "edges" -> Asks({"get_by_source", "get_by_target"}, Nodes) \cup
                      [ask : {"get_neighbors"}, of : Nodes, depth : 1..MaxDepth]
    [] k = "indicators" -> [ask : {"get_by_name", "get_latest"}, of : {"m1"}, in : {"a", "b"}]
    [] k = "zones" -> {}
    [] k = "markets" -> Asks({"get_by_symbol"}, {"a"}) \cup Asks({"list_active"}, {""})
    [] k = "candles" -> Spans \cup [ask : {"get_latest"}, of : {"m1"}, limit : 1..2] \cup
         [ask : {"get_candles"}, of : DOMAIN MarketOf, then : {"get_range"}, from : Ticks, to : Ticks]
         \cup [ask : {"get_candles"}, of : DOMAIN MarketOf, then : {"get_latest"}, limit : 1..2]

-----------------------------------------------------------------------------
(* A row is the sequence of values in the table's columns.  A column that  *)
(* v004 added to a table of an earlier release comes last.                  *)

Last(columns, c) == SelectSeq(columns, LAMBDA d : d # c) \o <<c>>
Columns ==
  LET columns == TableOf(backend, kind).columns
  IN  IF altered THEN Last(columns, "external_order_id") ELSE columns

Single(v) == IF v = "long" THEN "rounded" ELSE v

\* to_json of a dictionary writes as text what it has no form for.
Dictionaries == {"params", "results", "metrics"}
Json(v) == IF v = "dated" THEN "as text" ELSE v

\* _to_row: the entity's fields in the table's columns.
ToRow(e) ==
  LET t == TableOf(backend, kind)
      value(c) == CASE c \in t.single -> Single(e[c])
                    [] c \in t.blank /\ e[c] = "empty" -> "None"
                    [] c \in Dictionaries -> Json(e[c])
                    [] OTHER -> e[c]
  IN  [i \in DOMAIN Columns |-> value(Columns[i])]

\* _from_row: SQLite finds a column by its name, PostgreSQL by its place.
FromRow(row) ==
  LET t == TableOf(backend, kind)
      place(f) == IF backend = "sqlite" THEN CHOOSE i \in DOMAIN row : Columns[i] = f
                  ELSE CHOOSE i \in DOMAIN row : t.reads[i] = f
  IN  [f \in Fields(kind) |-> row[place(f)]]

\* A date of a trade is parsed, which no other value survives.
Dates == {"filled_at", "created_at", "updated_at"}
Misread(row) == kind = "trades" /\ \E f \in Dates : FromRow(row)[f] \notin Dates

\* WHERE looks at the columns by name; neighbours are nodes, not rows.
Selected(q) ==
  LET named(r) == [c \in Fields(kind) |-> r[CHOOSE i \in DOMAIN r : Columns[i] = c]]
      stored == {named(r) : r \in rows}
      found == IF backend = "sqlite" THEN SQLite(kind, q, stored) ELSE Postgres(kind, q, stored)
  IN  IF q.ask = "get_neighbors" THEN found ELSE {r \in rows : named(r) \in found}

\* An answer, or the exception that comes instead of it.
Raises(q) ==
  /\ backend = "postgres"
  /\ IF q.ask = "get_neighbors"
     THEN PostgresNeighborsRaise({FromRow(r) : r \in rows}, q.of, q.depth)
     ELSE \E r \in Selected(q) : Misread(r)
Answer(q) ==
  IF q.ask = "get_neighbors" THEN Selected(q) ELSE {FromRow(r) : r \in Selected(q)}

-----------------------------------------------------------------------------
(* The calls that write. *)

Has(S, id) == \E e \in S : e.id = id
Row(id) == {r \in rows : FromRow(r).id = id}

\* The columns that must be unique: the key, and the name of a strategy.
Refused(e) ==
  /\ kind = "strategies"
  /\ \E r \in rows : FromRow(r).name = e.name /\ FromRow(r).id # e.id

Init ==
  /\ kind \in Kinds
  /\ backend \in IF kind \in OnlySQLite THEN {"sqlite"} ELSE {"sqlite", "postgres"}
  /\ altered \in {kind = "trades" /\ backend = "postgres", FALSE}
  /\ mem = {} /\ rows = {} /\ misuse = {}

Without(id) == {e \in mem : e.id # id}
Misused(yes, id) == misuse' = IF yes THEN misuse \cup {id} ELSE misuse

\* INSERT.  A key that is taken is refused, where the dict is overwritten.
Add(e) ==
  LET refused == Row(e.id) # {} \/ Refused(e)
  IN  /\ mem' = Without(e.id) \cup {e}
      /\ rows' = IF refused THEN rows ELSE rows \cup {ToRow(e)}
      /\ Misused(refused, e.id)

\* UPDATE.  A key that is missing changes nothing, where the dict gains it.
Update(e) ==
  LET refused == Row(e.id) = {} \/ Refused(e)
  IN  /\ mem' = Without(e.id) \cup {e}
      /\ rows' = IF refused THEN rows ELSE (rows \ Row(e.id)) \cup {ToRow(e)}
      /\ Misused(refused, e.id)

Delete(id) ==
  /\ mem' = Without(id)
  /\ rows' = rows \ Row(id)
  /\ misuse' = misuse \ {id}

Write ==
  \/ \E e \in Entities(kind) : misuse = {} /\ (Add(e) \/ Update(e))
  \/ \E id \in Ids : Delete(id)
Next == Write /\ UNCHANGED <<kind, backend, altered>>
Spec == Init /\ [][Next]_vars

-----------------------------------------------------------------------------
(* What the program relies on. *)

TypeOK ==
  /\ kind \in Kinds /\ backend \in {"sqlite", "postgres"} /\ altered \in BOOLEAN
  /\ mem \subseteq Entities(kind) /\ misuse \subseteq Ids
  /\ \A r \in rows : DOMAIN r = DOMAIN Columns

\* Entity e came back as f: the same but for what a column cannot hold.
CameBack(e, f) ==
  \A x \in Fields(kind) :
    \/ f[x] = e[x]
    \/ backend = "postgres" /\ e[x] = "long" /\ f[x] = "rounded"
    \/ x \in {"results", "embedding"} /\ e[x] = "empty" /\ f[x] = "None"
    \/ x \in Dictionaries /\ e[x] = "dated" /\ f[x] = "as text"

\* Where an SQL store is known to find more, or less, than the in-memory one.
FindsMore(q, f) ==
  \/ q.ask = "list_active" /\ backend = "postgres" /\ kind = "strategies"
       /\ f.status = "promoted"
  \/ q.ask = "get_by_tags" /\ "fx" \in q.of /\ f.tags = "swing"
  \/ q.ask = "get_by_tags" /\ backend = "sqlite" /\ {"fx", "FX"} \cap q.of # {}
       /\ f.tags \in {"fx", "capitals", "swing", "both", "mixed"}
  \/ q.ask = "get_by_tags" /\ "%" \in q.of
  \/ q.ask = "search" /\ q.of = "%"
FindsLess(q, e) ==
  \/ q.ask = "search" /\ backend = "postgres" /\ q.of \notin {e.label, e.content}
  \/ q.ask = "search" /\ backend = "sqlite" /\ {q.of, e.label, e.content} \cap {"Wave"} # {}
  \/ q.ask = "get_by_tags" /\ Tags[e.tags] \cap q.of = {"accented"}

\* Every other question has the same answer, down to each field of what is
\* found, and it is an answer, not an exception, unless an earlier release's
\* trades table was altered.
AnswersAgree ==
  misuse = {} =>
    \A q \in {p \in Queries(kind) : p.ask # "get_neighbors"} :
      LET there == InMemory(kind, q, mem)
          here  == Answer(q)
      IN  IF altered THEN Raises(q) <=> there # {}
          ELSE /\ ~Raises(q)
               /\ \A e \in there : FindsLess(q, e) \/ \E f \in here : CameBack(e, f)
               /\ \A f \in here : FindsMore(q, f) \/ \E e \in there : CameBack(e, f)

\* The neighbourhood of a node is every stored node some walk of at most that
\* many edges, taken either way, leads to; PostgreSQL raises instead when no
\* node is exactly some smaller distance away.
NeighborsWithinDepth ==
  kind = "edges" =>
    LET edges == {FromRow(r) : r \in rows}
        joined(a, b) == \E e \in edges : {e.source_id, e.target_id} = {a, b}
        walk(a, b, n) == \E w \in [0..n -> Nodes] :
          w[0] = a /\ w[n] = b /\ \A i \in 1..n : joined(w[i - 1], w[i])
        near(a, b, n) == a # b /\ \E i \in 1..n : walk(a, b, i)
        apart(a, b, n) == near(a, b, n) /\ ~near(a, b, n - 1)
    IN  \A q \in {p \in Queries(kind) : p.ask = "get_neighbors"} :
          IF backend = "postgres" /\ \E i \in 1..(q.depth - 1) : \A b \in Nodes : ~apart(q.of, b, i)
          THEN Raises(q)
          ELSE ~Raises(q) /\ Answer(q) = {b \in StoredNodes : near(q.of, b, q.depth)}

\* Whatever was stored, SQLite and PostgreSQL answer every question as memory
\* does, with the differences named above and nothing else, and the level by
\* level search of both finds the neighbourhood that walks define.
\* (repositories/in_memory, repositories/sqlite, repositories/postgres)
StoresAnswerAlike == AnswersAgree /\ NeighborsWithinDepth

=============================================================================
