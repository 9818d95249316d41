SPECIFICATION StreamSpec
CONSTANTS
  ReconnectDelay = 1
  MaxReconnectDelay = 2
  Step = 2
  Prices = {1}
  MaxHistory = 2
  Stamps = {"exchange"}
  Reorders = FALSE
  MaxTime = 1
  MaxQuotes = 1
INVARIANT StreamingFeeds
PROPERTIES QuotesOnReconciled NoDialAfterStop RefreshedBeforeDial
