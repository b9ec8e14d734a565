SPECIFICATION Spec
CONSTANTS
  e1 = e1
  e2 = e2
  r1 = r1
  r2 = r2
  r3 = r3
  s1 = s1
  Experiments = {e1, e2}
  Requests = {r1, r2, r3}
  Target <- TwoAndOne
  Overrated = {r2}
  Stops = {s1}
  StopTarget <- OneStop
  Recovering = {e1}
  NoRun = NoRun
  MaxFaults = 2
  MaxRestarts = 1
CONSTRAINT Scenarios
INVARIANTS
  TypeOK
  OneRunPerExperiment
  TrafficStoppedBeforeAnalysis
  StrandedRowCanBeStopped
  WatcherServesRecovery
PROPERTY LifecycleImplemented
CHECK_DEADLOCK FALSE
