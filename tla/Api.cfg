SPECIFICATION Spec
CONSTANTS
  r = r
  w1 = w1
  w2 = w2
  e1 = e1
  Clients = {r, w1, w2}
  Experiments = {e1}
  MayAsk <- Roles
  MaxTime = 2
  MaxObservations = 2
  MaxFaults = 1
CHECK_DEADLOCK FALSE
VIEW View
INVARIANT StartWinsOnce
PROPERTIES
  AnswersNeverContradict
  StatusGoesForward
