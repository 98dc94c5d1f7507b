SPECIFICATION Spec
CONSTANTS
  d1 = d1
  d2 = d2
  m1 = m1
  p1 = p1
  v1 = v1
  None = None
  Boards <- TwoBoards
  Dtbs = {d1, d2}
  Macs = {m1}
  Relays = {p1}
  Devices = {v1}
  DeviceMac <- VirtualMac
  Templates <- Kinds
  DtbRequests = {r1}
  MaxEdits = 2
  MaxActions = 1
  MaxFaults = 2
INVARIANTS InventoryInv EditsAreSound
CONSTRAINT Apart
CHECK_DEADLOCK FALSE
