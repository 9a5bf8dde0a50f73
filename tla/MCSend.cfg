SPECIFICATION SendFairSpec
CONSTANTS
  a = a
  b = b
  m = m
  None = None
  Decimals = 2
  MaxWhole = 2
  Snaps <- MCSnaps
  Texts <- MCTexts
  Amounts <- MCAmounts
  Memos = {m}
  Edits = 3
  MaxSends = 2
  MaxPolls = 2
INVARIANTS SendTypeOK ConfirmedIsPaid BusyIsSending AmountIsExact
PROPERTY SnapshotSettles
