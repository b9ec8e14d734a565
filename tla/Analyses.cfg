SPECIFICATION Spec
CONSTANTS
  a = a
  b = b
  c = c
  d = d
  Unnamed = Unnamed
  Services = {a, b, c, d, Unnamed}
  MaxInt = 7
  Second = 2
  Plans <- AllPlans
  Traces <- SomeTraces
  Policies <- SomePolicies
  Config <- SomeConfig
  Scores <- SomeScores
  Rows <- SomeRows
  RoundedUp <- SomeRounding
  Times <- SomeTimes
  Tolerance = 10
  MaxRows = 4
CHECK_DEADLOCK FALSE
INVARIANTS
  AcceptedPlanClimbs
  DepthIsShortest
  IsolationIsNested
  BoundsAreIdle
  SustainableRateIsClean
  BoundaryIsLowestBreach
  KneeIsInside
  RecoveryAgreesWithRTO
  ReportHidesNoBreach
PROPERTY RedundancyIsolatesNobody
