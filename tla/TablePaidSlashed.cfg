SPECIFICATION Spec
CONSTANTS
  Urls = {1, 2}
  Wallets = {"w1", "w2"}
  NoWallet = "-"
  Models = {"m"}
  WalletOf <- TwoWallets
  NameOf <- TwoNames
  ModelOf <- OneModel
  SeedUrls = {1}
  OnTopic = {}
  HcsStake <- OneStake
  HcsPrice <- BothPrice
  MaxReputation = 1
  InitialStake = 1
  BondAmount = 1
  DemoSlash = 1
  Prices = {1}
  InfoReplies = {"ok"}
  Outcomes = {"ok"}
  SlashAmounts = {1}
  BondEvents <- NoBondEvents
  ResetWallets = {}
  Presses = {}
  Rounds = {"t1"}
  Requests = {"q1"}
  ModelWanted <- AllWantM
  Cells = {1, 2, 3, 4}
PROPERTY SlashedAreNotPaid
