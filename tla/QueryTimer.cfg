SPECIFICATION ClientSpec
CONSTANTS
  g1 = g1
  g2 = g2
  q1 = q1
  Gets <- MCGets
  Queries <- MCQueries
  QueryOf <- MCQueryOf
  MaxFaults = 1
  MaxChanges = 0
  MaxInFlight = 2
PROPERTIES
  OnlineStateDecided
CHECK_DEADLOCK FALSE
