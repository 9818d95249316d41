SPECIFICATION Spec
CONSTANTS
  NoDay = NoDay
  NoState = NoState
  NoWindow = NoWindow
  NoPosition = NoPosition
  NoDeal = NoDeal
  NoEpic = NoEpic
  NoSide = NoSide
  Epics = {EURUSD}
  Sides <- BothSides
  Days <- OneDay
  Equities <- Killing
  StartingEquity = 100
  MaxDailyLossPct = 10
  MaxTotalDrawdownPct = 20
  DrawdownPeakWindowBars = NoWindow
  MaxOpenPositions = 2
  ExecFailureLimit = 2
  MaxDeals = 2
  Faults = {"crash", "lostCreate", "gateway"}
INVARIANTS
  SidesAgree
  RefreshIsDurable
  OneDealPerEpic
PROPERTIES
  TripSurvives
