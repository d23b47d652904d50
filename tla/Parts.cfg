SPECIFICATION PartsSpec
CONSTANTS
  \* MockPaywall
  Bodies = {"b1"}
  Providers = {1}
  Prices = {5, 12}
  FeeBps = 1000
  MaxQuotes = 3
  Expiring = TRUE
  Relisting = TRUE
  Buyers = {"b1", "b2"}
  BodyOf <- SameBody
  Credentials = TRUE
  \* TradeFeed
  Trade = {"t1", "t2", "t3", "t4"}
  SoldQuotes = {"q1", "q2", "q3", "q4"}
  BilledQuote <- MCBilled
  PaidQuote <- MCPaid
  FromZeroG = {"t1", "t2"}
  Odd = {"x"}
  LogLimit = 2
  HydrateLimit = 2
  MaxStarts = 2
  MaxFeedMishaps = 1
  \* AgenticId
  Posts = {"p1", "p2", "p3"}
  Me = "me"
  Other = "other"
  MaxBought = 2
  MaxIdMishaps = 1
  \* ModelRouting
  Models = {m1, m2, m3}
  Asks <- MCAsks
  Fallback = fallback
  MarketSize = 3
  Unreachable = unreachable
  \* Inference
  Prompts = {"default", "capital", "ethereum", "x402", "math", "haiku"}
  CustomModels = {"llama 70b", "0gm"}
  \* Onboarding
  Accounts = {"a1", "a2"}
  Public = {"u1"}
  Local = "local"
  Unset = "unset"
  Hosts = {"box", "cloud"}
  Box = "box"
  Services = {"s1", "s2"}
  HostOf <- BoxAndContainer
  Window = 3
  MaxBoots = 3
  MaxMishaps = 1
  Calls = {"c1", "c2"}
  Tools = {"create", "stake", "check", "register", "provision"}
INVARIANTS
  LedgerBalances
  RevenueIsTheLedgers
  FeedIsBounded
  VerdictsArePaidFor
  OneTokenPerAgent
  ShownMemoryIsTheTokens
  TiersFollowPrices
  ZeroGErrorsFallBack
  ProvenanceIsTrue
  OnlyLikeAnswersPass
  RecordsAreTrue
  BoxStakesOnce
  ProvisionedIsOnChain
PROPERTY SoldMemoryStays
CHECK_DEADLOCK FALSE
