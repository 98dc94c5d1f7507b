SPECIFICATION LiveSpec
CONSTANTS
  Boards = {b1}
  Sessions = {s1}
  Automatic = {b1}
  NoSession = NoSession
  NoBoard = NoBoard
  RetryAttempts = 2
  MaxFaults = 3
  MaxRequests = 2
  MaxRestarts = 0
INVARIANTS PowerOffOnce
PROPERTIES SessionsEnd
CHECK_DEADLOCK FALSE
