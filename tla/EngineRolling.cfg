SPECIFICATION Spec
CONSTANTS
  NoDay = NoDay
  NoState = NoState
  NoWindow = NoWindow
  NoPosition = NoPosition
  NoDeal = NoDeal
  NoEpic = NoEpic
  NoSide = NoSide
  Epics = {EURUSD}
  Sides <- BothSides
  Days <- OneDay
  Equities <- AllEquities
  StartingEquity = 100
  MaxDailyLossPct = 10
  MaxTotalDrawdownPct = 20
  DrawdownPeakWindowBars = 2
  MaxOpenPositions = 2
  ExecFailureLimit = 2
  MaxDeals = 2
  Faults = {"signal", "accounts", "lookup", "confirm", "close", "lostCreate", "gateway"}
PROPERTIES
  NoDealWhileBlocked
