SPECIFICATION Spec
CONSTANTS
  e1 = e1
  e2 = e2
  r1 = r1
  r2 = r2
  r3 = r3
  s1 = s1
  Experiments = {e1, e2}
  Requests = {r1, r2}
  Target <- TwoTargets
  Overrated = {}
  Stops = {}
  StopTarget <- OneStop
  Recovering = {e1}
  NoRun = NoRun
  MaxFaults = 0
  MaxRestarts = 0
INVARIANT TrafficIsMonitored
CHECK_DEADLOCK FALSE
