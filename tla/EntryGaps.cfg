SPECIFICATION EntrySpec
CONSTANTS
  NoDay = NoDay
  NoState = NoState
  NoWindow = NoWindow
  None = None
  Days <- MCDays
  Epics <- MCEpics
  CurrencyMap <- MCCurrencyMap
  Matrices <- Chain
  WarmSets <- MCWarmSets
  Balances <- MCBalances
  StopPcts = {4, 10}
  AtrPcts = {0, 10}
  SizingMode = "vol_target"
  RiskPerTradePct = 1
  VolTargetPct = 1
  MaxPositionPct = 20
  MaxCurrencyExposurePct = 30
  MaxPositionsPerCurrency = 2
  CorrelationThreshold = 70
  MaxCorrelatedExposurePct = 25
  MaxPositionsPerGroup = 2
  MaxDailyLossPct = 15
  MaxTotalDrawdownPct = 20
  DrawdownPeakWindowBars = NoWindow
  MaxOpenPositions = 3
INVARIANT CurrencyCapped
PROPERTY SignsAgree
