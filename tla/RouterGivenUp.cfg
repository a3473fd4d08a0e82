SPECIFICATION Spec
CONSTANTS
  NumFiles = 2
  MaxLines = 1
  BatchSize = 2
  MaxRetries = 2
  LostAnswers = FALSE
  MaxSaveFailures = 1
  MaxExits = 0
PROPERTY FailedIsRequeued
CHECK_DEADLOCK FALSE
