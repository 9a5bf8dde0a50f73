SPECIFICATION Spec
CONSTANTS
  Profiles = {main, other}
  Nets = {testnet, mainnet}
  Children = {c1, c2, c3}
  Starts = {s1, s2}
  None = None
  Dead = Dead
  Unread = Unread
INVARIANT EveryChildIsRegistered
