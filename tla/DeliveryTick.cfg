SPECIFICATION Spec
CONSTANTS
  Rules = {1}
  MaxAlerts = 2
  Limits = {1}
  Matches <- MCMatches
  MaxAttempts = 2
  Backoff <- MCBackoff
  Hour = 1
  Keep = 2
  PerTick = 2
  MaxLag = 1
  LostAnswers = TRUE
  MaxEdits = 0
  MaxCrashes = 1
INVARIANTS TypeOK SentTwiceOnlyWhenUnsure
PROPERTY LimitKept
CHECK_DEADLOCK FALSE
