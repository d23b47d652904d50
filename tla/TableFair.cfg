SPECIFICATION FairTable
CONSTANTS
  Urls = {1, 2}
  Wallets = {"w1", "w2"}
  NoWallet = "-"
  Models = {"m"}
  WalletOf <- OneWallet
  NameOf <- TwoNames
  ModelOf <- OneModel
  SeedUrls = {1}
  OnTopic = {2}
  HcsStake <- OneStake
  HcsPrice <- BothPrice
  MaxReputation = 1
  InitialStake = 1
  BondAmount = 1
  DemoSlash = 1
  Prices = {1}
  InfoReplies = {"ok", "bad_price", "fail"}
  Outcomes = {"ok", "fail"}
  SlashAmounts = {}
  BondEvents <- NoBondEvents
  ResetWallets = {"w1"}
  Presses = {"d1"}
  Rounds = {"t1"}
  Requests = {"q1"}
  ModelWanted <- AllWantM
  Cells = {1, 2, 3, 4}
PROPERTY StaleRequestsResume
PROPERTY DemoEndsInSlash
