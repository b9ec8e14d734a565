SPECIFICATION FairSpec
CONSTANTS
  r1 = r1
  r2 = r2
  s1 = s1
  s2 = s2
  Runs = {r1, r2}
  Stoppers = {s1, s2}
  NoRun = NoRun
  BufferSize = 1
  Threshold = 2
  ImmediatePoll = FALSE
  MaxFailures = 2
CHECK_DEADLOCK FALSE
INVARIANTS
  StopWaitsForTheLoop
  BreachNeedsOwnErrors
PROPERTIES
  StreamImplementsSlot
  StopReturns
  SlotIsFreed
