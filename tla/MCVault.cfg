SPECIFICATION Spec
CONSTANTS
  Profiles = {p1, p2}
  Secrets = {x1, x2}
  Masters = {m1, m2, m3}
  Salts = {s1, s2, s3}
  Legacy = Legacy
  BuiltIn = BuiltIn
  None = None
  Torn = Torn
  PinEra = PinEra
  Outages <- WholeOutages
  MaxFaults = 1
SYMMETRY Symmetry
INVARIANTS TypeOK ReadyIsOpenable SessionIsVault
PROPERTIES WipeLeavesNoVault CustodyHolds
