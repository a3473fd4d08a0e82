SPECIFICATION Spec
CONSTANTS
  poll = poll
  watch = watch
  once = once
  worker = worker
  child = child
  Passes = {poll, once}
  FullPasses = {poll, once}
  Processes = {worker, child}
  ProcessOf <- MCProcessOf
  Readers = {"native", "claude-code"}
  Kind <- MCPair
  MaxLines = 2
  MaxText = 2
  PartialWrites = TRUE
  Faulty = {1}
  MaxFaults = 1
INVARIANTS NothingSkipped CountedOnce BreakOnlyAfterRace OffsetAtLineEnd
SYMMETRY MCAlike
CHECK_DEADLOCK FALSE
