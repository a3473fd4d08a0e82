SPECIFICATION FairSpec
CONSTANTS
  Rules = {1}
  MaxAlerts = 2
  Limits = {1}
  Matches <- MCAll
  MaxAttempts = 2
  Backoff <- MCBackoff
  Hour = 1
  Keep = 2
  PerTick = 1
  MaxLag = 0
  LostAnswers = FALSE
  MaxEdits = 1
  MaxCrashes = 0
INVARIANTS MissedStaysMissed NoOrphans
PROPERTY EventuallySettled
CHECK_DEADLOCK FALSE
