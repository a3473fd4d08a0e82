SPECIFICATION FairSpec
CONSTANTS
  a = a
  b = b
  c = c
  s1 = s1
  s2 = s2
  s3 = s3
  r = r
  Names = {a, b, c}
  Repos = {r}
  NoRepo = NoRepo
  Repo <- MCRepo
  Gone = {b}
  Sessions = {s1, s2, s3}
  Home <- MCHome
  Passes = {p, q}
  Web = {w}
  Minutes = {1}
  MaxIds = 4
  MaxLines = 1
  MaxRequests = 1
  Faulty = {s3}
INVARIANTS TypeOK SessionsFollowNames UsageFollowsSessions
PROPERTIES MergedStaysMerged Settles
CHECK_DEADLOCK FALSE
