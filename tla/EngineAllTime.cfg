SPECIFICATION Spec
CONSTANTS
  NoDay = NoDay
  NoState = NoState
  NoWindow = NoWindow
  NoPosition = NoPosition
  NoDeal = NoDeal
  NoEpic = NoEpic
  NoSide = NoSide
  Epics = {EURUSD, USDJPY}
  Sides <- BothSides
  Days <- OneDay
  Equities <- AllEquities
  StartingEquity = 100
  MaxDailyLossPct = 10
  MaxTotalDrawdownPct = 20
  DrawdownPeakWindowBars = NoWindow
  MaxOpenPositions = 2
  ExecFailureLimit = 2
  MaxDeals = 2
  Faults = {"crash", "signal", "accounts", "confirm", "close", "lostCreate"}
SYMMETRY EpicSymmetry
INVARIANTS
  OneDealPerEpic
  DurableMirror
  KillDurable
PROPERTIES
  KillSurvives
  LevelsSurvive
  NoDealWhileBlocked
