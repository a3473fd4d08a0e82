SPECIFICATION FairSpec
CONSTANTS
  Journals <- MCJournals
  MaxItems = 4
  Minute = 1
  BatchSize = 1
  MaxPosts = 3
  MaxRereads = 1
  MaxFailures = 2
INVARIANTS PassedIsKnown DoubleOnlyIfLate RecordsKept
PROPERTY EventuallyKnown
CHECK_DEADLOCK FALSE
