SPECIFICATION StreamSpec
CONSTANTS
  ReconnectDelay = 1
  MaxReconnectDelay = 2
  Step = 2
  Prices = {1, 2}
  MaxHistory = 2
  Stamps = {"exchange"}
  Reorders = FALSE
  MaxTime = 4
  MaxQuotes = 3
INVARIANTS
  HistoryInOrder
  BackoffDoubles
PROPERTIES
  BarsMirror
  QuotesAfterReconcile
  StopEnds
