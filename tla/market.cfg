SPECIFICATION MCSpec
CONSTANTS
  Symbols = {btc, eth}
  Phases = 2
  MaxTime = 8
  MaxFaults = 2
  ReconnectLimit = 1
  MaxStaleness = 3
  Window = 4
  LimitCap = 4
  Limits = {2, 5}
  Hour = 2
  Four = 2
  Spaced = 3
  Depth = 18
  MaxNow = 12
  Capital = 50
  Slippage = 3
  Quantities = {1, 2}
  Prices = {4, 6}
  Trail = 10
  MaxOrders = 4
  Fast = 6
  Slow = 7
  Swing = 3
  MomentumWindow = 2
  MinCandles = 3
  Bars <- BarShapes
  MaxBars = 8
  FeeShare = 2
  MinFee = 1
  BrainFast = 2
  BrainSlow = 3
  BrainSwing = 2
  BrainMomentum = 2
  BrainCandles = 3
  SourceHour = 2
  MaxMinute = 4
  HistoryBars = 3
  TickBuffer = 2
  BrainFailures = 1
  BrainCrashes = 1
  Submitters = {"cycle", "retail"}
  Fills <- FillShapes
  MaxSignals = 3
  MaxRestarts = 1
  ReadLimit = 15
SYMMETRY Symmetry
INVARIANTS
  ServedIsWhatCame ResyncHeals RestartIsInvisible
  ReplayTellsTheTruth PaperBooksAgree
PROPERTY NoLookAhead
CHECK_DEADLOCK FALSE
