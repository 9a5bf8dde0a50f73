SPECIFICATION Spec
CONSTANTS
  Profiles = {main, other}
  Default = main
  Nets = {testnet, mainnet}
  FirstNet = testnet
  Secrets = {x1, x2, x3}
  Requests = {r1, r2}
  None = None
  PageReloads = FALSE
  LateSaves = FALSE
SYMMETRY Symmetry
INVARIANTS TypeOK CommandsHitOpenWallet HandleMatchesSettings DbBelongsToVault OneActiveProfile
PROPERTIES VaultNeverReplaced
