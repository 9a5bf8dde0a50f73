SPECIFICATION Spec
CONSTANTS
  Profiles = {main, other}
  Default = main
  Nets = {testnet, mainnet}
  FirstNet = testnet
  Secrets = {x1, x2}
  Requests = {r1, r2}
  None = None
  PageReloads = TRUE
  LateSaves = FALSE
INVARIANT CommandsHitOpenWallet
