SPECIFICATION DirSpec
CONSTANTS
  a1 = a1
  a2 = a2
  a3 = a3
  i1 = i1
  i2 = i2
  i3 = i3
  None = None
  Addresses = {a1, a2, a3}
  Ids = {i1, i2, i3}
  Ident <- MCIdent
  Snapshots <- AllSnapshots
  MaxSnapshots = 4
INVARIANTS
  MembersStay
  AvailableHasConnection
CHECK_DEADLOCK FALSE
