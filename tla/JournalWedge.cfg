SPECIFICATION FairSpec
CONSTANTS
  poll = poll
  watch = watch
  once = once
  worker = worker
  child = child
  Passes = {poll}
  FullPasses = {poll}
  Processes = {worker, child}
  ProcessOf <- MCProcessOf
  Readers = {"native"}
  Kind <- MCPair
  MaxLines = 2
  MaxText = 2
  PartialWrites = TRUE
  Faulty = {}
  MaxFaults = 0
PROPERTY EventuallyStored
CHECK_DEADLOCK FALSE
