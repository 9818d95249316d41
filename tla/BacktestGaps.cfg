SPECIFICATION Spec
CONSTANTS
  NoDay = NoDay
  NoState = NoState
  NoWindow = NoWindow
  NoPosition = NoPosition
  NoLevel = NoLevel
  NoCandle = NoCandle
  Days <- TwoDays
  MaxDailyLossPct = 15
  MaxTotalDrawdownPct = 25
  DrawdownPeakWindowBars = 2
  MaxOpenPositions = 1
  Epics = {e1, e2}
  Candles <- TwoBars
  StartingEquity = 20
  Adverse = 1
  Commission = 1
  Sizes <- OneSize
  MaxPositionPct = 100
  Distances <- TwoAway
  MaxCandles = 8
INVARIANTS
  KilledMeansFlat
  ResultsAreNet
PROPERTIES
  PaysTheSpread
