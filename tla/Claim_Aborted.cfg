SPECIFICATION Spec
CONSTANTS
  e1 = e1
  e2 = e2
  r1 = r1
  r2 = r2
  r3 = r3
  s1 = s1
  Experiments = {e1}
  Requests = {r1}
  Target <- OneTarget
  Overrated = {}
  Stops = {s1}
  StopTarget <- OneStop
  Recovering = {}
  NoRun = NoRun
  MaxFaults = 0
  MaxRestarts = 0
INVARIANT AbortedHasNoTraffic
CHECK_DEADLOCK FALSE
