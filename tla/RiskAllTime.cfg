SPECIFICATION Spec
CONSTANTS
  NoDay = NoDay
  NoState = NoState
  NoWindow = NoWindow
  Days <- TwoDays
  Equities <- AllEquities
  MaxDailyLossPct = 10
  MaxTotalDrawdownPct = 20
  DrawdownPeakWindowBars = NoWindow
  MaxOpenPositions = 2
  OrderedDays = TRUE
  RestartsAllowed = TRUE
INVARIANTS
  TypeOK
  DrawdownNeverForgotten
  HaltLastsTheDay
