SPECIFICATION FairSpec
CONSTANTS
  MaxMessages = 2
  Texts = {raw, clean}
  Fresh = {raw}
  None = None
  Windows = {1, 2}
  BatchSize = 1
  ThawLimit = 1
  MaxDay = 3
  MaxActs = 2
INVARIANTS OnePlace TotalsExact NothingLeftBehind
PROPERTY TextKept ColdInTheEnd
CHECK_DEADLOCK FALSE
