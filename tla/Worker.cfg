SPECIFICATION FairSpec
CONSTANTS
  Dirs = {d, e}
  Probe = d
  MaxTargeted = 1
  PollMin = 1
  PollMax = 2
  DogTick = 1
  Stall = 2
  Hang = 3
  Dogs = {"dog1", "dog2"}
  MaxAge = 1
  MaxFailures = 1
  MaxHangs = 1
INVARIANTS SingleFlight NotedIsTimed WaitBounded
PROPERTY EventuallyRead
CHECK_DEADLOCK FALSE
