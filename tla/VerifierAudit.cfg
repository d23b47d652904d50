SPECIFICATION FairSpec
CONSTANTS
  Urls = {1, 2}
  Wallets = {"w1", "w2"}
  WalletOf <- TwoWallets
  ModelOf <- OneModel
  PriceOf <- TwoPrices
  MayDiverge = {1}
  Strays = {"stray"}
  Requests = {"r1", "r2"}
  Attested = {"r2"}
  Presses = {"d1"}
  PressTargets = {"w1"}
  BondAmount = 1
  MaxRestarts = 1
INVARIANT SlashHasACause
INVARIANT ShownWipeIsReal
PROPERTY AuditSparesTheSlashed
PROPERTY AuditsGoOn
