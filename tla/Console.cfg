SPECIFICATION FairSpec
CONSTANTS
  Letters = {"p", "k", "x"}
  CheckConfigs <- MCConfigs
  FailPatterns <- MCFail
  Runners = {"qemu", "httpboot"}
  HistoryMax = 1
  MatchWindow = 2
  PendingLimit = 2
  CommandChunks = 2
  None = None
  MaxOutput = 5
  MaxChunk = 2
  MaxKeys = 1
INVARIANTS VerdictIsRight
PROPERTIES DecidedRunEnds
CHECK_DEADLOCK FALSE
