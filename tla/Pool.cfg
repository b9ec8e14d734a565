SPECIFICATION FairSpec
CONSTANTS
  g1 = g1
  g2 = g2
  s1 = s1
  s2 = s2
  t1 = t1
  t2 = t2
  Starts = {g1, g2}
  Cancellable = {g1}
  Stops = {s1, s2}
  Tasks = {t1, t2}
  NoStart = NoStart
  MaxConcurrency = 1
CHECK_DEADLOCK FALSE
INVARIANTS
  StopLeavesNoWorker
  WorkersBelongToThePool
  TaskInOnePlace
PROPERTIES
  StopReturns
  AcceptedTaskRuns
