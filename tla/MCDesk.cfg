SPECIFICATION FairSpec
CONSTANTS
  test = test
  main = main
  lwdTest = lwdTest
  lwdMain = lwdMain
  lwdOwn = lwdOwn
  None = None
  Decimals = 2
  MaxWhole = 2
  Nets = {test, main}
  Testnet = test
  Lwds = {lwdTest, lwdMain, lwdOwn}
  LwdOf <- MCLwdOf
  Counts = {1, 2}
  Nicks = {n1, n2}
  Default <- MCDefault
  n1 = n1
  n2 = n2
  Moves = 2
  Tours <- MCTours
  Seeds = {s1, s2}
  Phrases = {r1}
  MaxWrites = 2
  Daos = {d1, d2}
  Bullas = {b1}
  MaxCalls = 2
  Addresses = {a1, a2}
  MaxAsks = 2
  Snaps <- MCSnaps
  Heights = {1}
  MaxPolls = 2
  MaxReloads = 2
INVARIANTS DeskTypeOK SeedShownIsMade BannerIsNetwork ProposesForModal QrMatchesAddress
PROPERTIES WritesHold SliderSettles SyncSettles
