SPECIFICATION FairSpec
CONSTANTS
  NoDay = NoDay
  NoState = NoState
  NoWindow = NoWindow
  NoPosition = NoPosition
  NoDeal = NoDeal
  NoEpic = NoEpic
  NoSide = NoSide
  Epics = {EURUSD, USDJPY}
  Sides <- BothSides
  Days <- OneDay
  Equities <- AllEquities
  StartingEquity = 100
  MaxDailyLossPct = 10
  MaxTotalDrawdownPct = 20
  DrawdownPeakWindowBars = NoWindow
  MaxOpenPositions = 1
  ExecFailureLimit = 2
  MaxDeals = 3
  Faults = {"crash", "signal", "accounts", "confirm", "close"}
INVARIANTS
  DealsTracked
PROPERTIES
  AccountSafe
  KillStops
  HandlerReturns
