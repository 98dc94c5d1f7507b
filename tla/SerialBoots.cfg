SPECIFICATION LiveSpec
CONSTANTS
  p1 = p1
  Ports <- OnePort
  Requests <- TwoBoots
  Wired <- OneWire
  Manual = Manual
  Free = Free
  NoPort = NoPort
  MaxManual = 2
INVARIANTS ManagerInv
PROPERTIES ManagerServes
