SPECIFICATION FeedSpec
CONSTANTS
  Step = 2
  Prices = {1, 2, 3}
  MaxHistory = 2
  Stamps = {"exchange", "none", "garbled"}
  Reorders = TRUE
  MaxTime = 5
  MaxQuotes = 4
INVARIANTS
  NoBarTwice
  HistoryInOrder
PROPERTIES
  EveryBarMirrors
  BarsMirror
