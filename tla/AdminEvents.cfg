SPECIFICATION FairEventsSpec
CONSTANTS
  Clients = {c1}
  HistoryLimit = 1
  Nothing = Nothing
  Error = Error
  MaxChanges = 2
  MaxBreaks = 3
INVARIANTS EventsInv
PROPERTIES ClientsCatchUp
CHECK_DEADLOCK FALSE
