SPECIFICATION Spec
CONSTANTS
  Runs = {r1, r2}
  Goals = {g1, g2}
  Caps <- MCCaps
  Ask = 1
  Totals <- MCTotals
  MaxQuestions = 2
  CallsCap = 2
  Limit = 3
  Foreign = Foreign
  MaxForeign = 0
  Deposit = 8
  MaxBoots = 1
  ReceiptsReadable = TRUE
CHECK_DEADLOCK FALSE
INVARIANT WalletWithinBudget
