SPECIFICATION Spec
CONSTANTS
  Profiles = {main, other}
  Nets = {testnet, mainnet}
  Children = {c1, c2, c3}
  Starts = {s1}
  None = None
  Dead = Dead
  Unread = Unread
SYMMETRY Symmetry
INVARIANTS TypeOK EveryChildIsRegistered ShownAddressIsPaid NothingOutlivesExit
PROPERTIES SwitchStopsMining
