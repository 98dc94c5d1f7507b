SPECIFICATION FairSpec
CONSTANTS
  MaxHandoffs = 2
  MaxPowers = 2
  MaxReboots = 1
  MaxStarts = 2
  MaxFaults = 1
PROPERTIES CallersAreServed PortWaitIsBounded
CHECK_DEADLOCK FALSE
