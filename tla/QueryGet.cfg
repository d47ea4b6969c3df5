SPECIFICATION FairSpec
CONSTANTS
  g1 = g1
  g2 = g2
  q1 = q1
  Gets <- MCGets
  Queries <- MCQueries
  QueryOf <- MCQueryOf
  MaxFaults = 2
  MaxChanges = 1
  MaxInFlight = 2
INVARIANTS
  Consistent
  ListenersHaveTargets
  AnsweredOnce
  CurrentWasTold
PROPERTIES
  CountedUnlessDropped
  GetAnswered
CHECK_DEADLOCK FALSE
