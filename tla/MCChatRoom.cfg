SPECIFICATION Spec
CONSTANTS
  home = home
  other = other
  new = new
  public = public
  sealed = sealed
  p1 = p1
  p2 = p2
  t1 = t1
  None = None
  Channels = {home, other, new}
  Defaults <- MCDefaults
  Events = {public, sealed}
  ChanOf <- MCChanOf
  SealedWith <- MCSealedWith
  Peers = {p1, p2}
  Texts = {t1}
  Cap = 2
  MaxKept = 1
  Moves = 2
  Sends = 2
INVARIANTS TypeOK ViewIsHistory UnreadIsReachable OncePerEvent SealedAsTyped BookIsKept
PROPERTY RoomHolds
