SPECIFICATION FairSpec
CONSTANTS
  a1 = a1
  a2 = a2
  a3 = a3
  x = x
  p1 = p1
  p2 = p2
  c1 = c1
  c2 = c2
  Events = {a1, a2, a3}
  Malformed = {a3}
  ExperimentOf <- OneExperiment
  Partitions = {p1, p2}
  PartitionOf <- OneKey
  Consumers = {c1, c2}
  Nothing = Nothing
  MaxBuffered = 1
  RestartAfterWriteError = FALSE
  MaxFaults = 2
CHECK_DEADLOCK FALSE
INVARIANTS
  CommittedIsAudited
  NoOvertaking
PROPERTY PublishedIsAudited
