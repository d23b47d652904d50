SPECIFICATION SettleSpec
CONSTANTS
  Bodies = {"same", "own"}
  Providers = {1}
  Prices = {5, 12}
  FeeBps = 1000
  MaxQuotes = 3
  Expiring = TRUE
  Relisting = TRUE
  Buyers = {"b1", "b2", "b3"}
  NoBuyer = "-"
  BodyOf <- TwoShare
  LogLimit = 2
CHECK_DEADLOCK FALSE
INVARIANT TradesNameTheirPayer
INVARIANT BooksAreExact
INVARIANT RevenueBacked
INVARIANT QuoteBookConsistent
INVARIANT EntriesPublishedOnce
PROPERTY PaymentsSpec
