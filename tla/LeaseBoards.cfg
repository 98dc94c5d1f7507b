SPECIFICATION Spec
CONSTANTS
  Boards = {b1, b2}
  Sessions = {s1, s2}
  Automatic = {b1}
  NoSession = NoSession
  NoBoard = NoBoard
  RetryAttempts = 1
  MaxFaults = 1
  MaxRequests = 1
  MaxRestarts = 1
SYMMETRY SessionSymmetry
INVARIANTS LeaseInv BoardsComeBackOff
PROPERTIES ReleaseIsComplete ImplementsLeaseService
CHECK_DEADLOCK FALSE
