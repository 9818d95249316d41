SPECIFICATION ResearchSpec
CONSTANTS
  Ideas = {rsi, ema}
  Procs = {p, q}
  None = None
  NoFile = NoFile
  EmptyFile = EmptyFile
  Garbled = Garbled
  ScreenRows <- MCScreenRows
  HoldoutMeasures <- MCHoldoutMeasures
  ReportBlock <- MCReportBlock
  OneAtATime = TRUE
  Backtest <- MCBacktest
  Grid <- MCGrid
  Defaults = defaults
  IsBars = 2
  OosBars = 1
  StepBars = None
  WarmupBars = 2
  MinTrades = 1
  SelectTopN = 1
  SelectMetric = "return"
  HoldoutPct = 50
  MinHoldoutBars = 6
  MinTrainBars = 3
  BarsPerMonth = 2
  FlatCandle = 0
  DataSets <- MCMarkets
  Markets <- MCMarkets
  Starts = {4}
  Horizon = 5
  Forming <- MCForming
  Totals = {3, 6}
  Chunk = 2
  MaxRequests = 3
  Unreadable = Unreadable
  NoCursor = NoCursor
INVARIANTS
  NoLookAhead
  TestedOnce
  PassedMeansProfit
PROPERTIES
  LedgerRefined
  SavedIsTail
