SPECIFICATION FairSpec
CONSTANTS
  r1 = r1
  r2 = r2
  Runs = {r1, r2}
  NoRun = NoRun
  Failed = Failed
  Empty = Empty
  Threshold = 2
  MaxFaults = 1
  Config <- SomeConfig
  Answers <- SomeAnswers
CHECK_DEADLOCK FALSE
INVARIANTS
  TypeOK
  FailSafe
  BreachIsEarned
PROPERTIES
  EngineImplementsSlot
  OutageEndsTraffic
