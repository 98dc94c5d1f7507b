SPECIFICATION Spec
CONSTANTS
  Images = {i0, i1}
  Base = i0
  Uploads = {i1}
  DirectImages = {i1}
  MaxJobs = 2
  MaxBoots = 3
  MaxFaults = 1
  MaxAttempts = 2
INVARIANTS StoreInv TrialInv
PROPERTIES TerminalStays
CHECK_DEADLOCK FALSE
