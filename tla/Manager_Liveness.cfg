SPECIFICATION FairSpec
CONSTANTS
  e1 = e1
  e2 = e2
  r1 = r1
  r2 = r2
  r3 = r3
  s1 = s1
  Experiments = {e1}
  Requests = {r1}
  Target <- OneTarget
  Overrated = {}
  Stops = {s1}
  StopTarget <- OneStop
  Recovering = {e1}
  NoRun = NoRun
  MaxFaults = 2
  MaxRestarts = 0
PROPERTIES
  CancelledRunFinishes
  CancelledTrafficEnds
  AcceptedStopTerminates
CHECK_DEADLOCK FALSE
