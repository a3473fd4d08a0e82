SPECIFICATION FairSpec
CONSTANTS
  NumFiles = 2
  MaxLines = 1
  BatchSize = 2
  MaxRetries = 2
  LostAnswers = TRUE
  MaxSaveFailures = 1
  MaxExits = 2
INVARIANTS TypeOK NothingFallsOut ResentOnlyInDoubt QueueInOrder
PROPERTY EventuallyHandled
CHECK_DEADLOCK FALSE
