SPECIFICATION TableSpec
CONSTANTS
  Urls = {1, 2}
  Wallets = {"w1", "w2"}
  NoWallet = "-"
  Models = {"m"}
  WalletOf <- TwoWallets
  NameOf <- TwoNames
  ModelOf <- OneModel
  SeedUrls = {1}
  OnTopic = {1}
  HcsStake <- OneStake
  HcsPrice <- BothPrice
  MaxReputation = 1
  InitialStake = 1
  BondAmount = 1
  DemoSlash = 1
  Prices = {1}
  InfoReplies = {"ok", "bad_price", "fail"}
  Outcomes = {"ok", "fail"}
  SlashAmounts = {1}
  BondEvents <- AnyBondEvents
  ResetWallets = {"w1"}
  Presses = {"d1"}
  Rounds = {t1, t2}
  Requests = {"q1", "q2"}
  ModelWanted <- AllWantM
  Cells = {1, 2, 3, 4, 5, 6}
PROPERTY SlashLostOnlyToStale
PROPERTY StandingLostOnlyToStale
PROPERTY OnlyAResetUnprices
INVARIANT ServedNeverOvercounts
SYMMETRY RoundsAreAlike
