SPECIFICATION Spec
CONSTANTS
  Bodies = {"same"}
  Providers = {1}
  Prices = {5, 12}
  FeeBps = 1000
  MaxQuotes = 2
  Expiring = TRUE
  Relisting = TRUE
  Buyers = {"b1"}
  NoBuyer = "-"
  BodyOf <- SameBody
  LogLimit = 2
CHECK_DEADLOCK FALSE
INVARIANT HandlerServesThePaidQuote
