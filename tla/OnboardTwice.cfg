SPECIFICATION OnboardSpec
CONSTANTS
  Accounts = {"a1"}
  Public = {"u1"}
  Local = "local"
  Unset = "unset"
  Hosts = {"box", "cloud"}
  Box = "box"
  Services = {"s2"}
  HostOf <- BoxAndContainer
  Window = 3
  MaxBoots = 1
  MaxMishaps = 0
  Calls = {"c1"}
  Tools = {"provision"}
INVARIANT StakedOnce
CHECK_DEADLOCK FALSE
