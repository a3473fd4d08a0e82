SPECIFICATION FairSpec
CONSTANTS
  poll = poll
  watch = watch
  once = once
  worker = worker
  child = child
  Passes = {poll, watch}
  FullPasses = {poll}
  Processes = {worker, child}
  ProcessOf <- MCProcessOf
  Readers = {"native", "claude-code"}
  Kind <- MCKind
  MaxLines = 3
  MaxText = 1
  PartialWrites = FALSE
  Faulty = {}
  MaxFaults = 1
PROPERTY CaughtUp
CHECK_DEADLOCK FALSE
