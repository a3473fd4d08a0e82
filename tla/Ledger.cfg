SPECIFICATION FairSpec
CONSTANTS
  Procs = {worker, web}
  Web = {web}
  Timer = {worker}
  Sessions = {1, 2}
  Feeds <- LeakFeeds
  Chunk = 1
  Window = 2
  MaxPasses = 2
  MaxBlocks = 2
  MaxRequests = 1
  MaxAborts = 1
INVARIANTS Coverage FlagMatchesSightings OneOpenAlertPerKind CountsSightings HistoryOnlyByReset
PROPERTY EventuallyComplete
CHECK_DEADLOCK FALSE
