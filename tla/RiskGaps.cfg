SPECIFICATION Spec
CONSTANTS
  NoDay = NoDay
  NoState = NoState
  NoWindow = NoWindow
  Days <- TwoDays
  Equities <- MildEquities
  MaxDailyLossPct = 10
  MaxTotalDrawdownPct = 20
  DrawdownPeakWindowBars = NoWindow
  MaxOpenPositions = 2
  OrderedDays = FALSE
  RestartsAllowed = TRUE
INVARIANTS HaltLastsTheDay
PROPERTIES RestartForgetsNothing
