SPECIFICATION Spec
CONSTANTS
  NoDay = NoDay
  NoState = NoState
  NoWindow = NoWindow
  Days <- OneDay
  Equities <- FewEquities
  MaxDailyLossPct = 10
  MaxTotalDrawdownPct = 20
  DrawdownPeakWindowBars = 3
  MaxOpenPositions = 2
  OrderedDays = TRUE
  RestartsAllowed = FALSE
INVARIANTS
  RollingPeakRemembered
PROPERTIES
  OldPeakExpires
