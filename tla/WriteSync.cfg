SPECIFICATION FairSpec
CONSTANTS
  Users = {u1, u2}
  u1 = u1
  u2 = u2
  kMaxPendingWrites = 2
  MaxWrites = 4
  MaxFaults = 3
INVARIANTS
  Consistent
  PipelineIsQueueFront
  CallbackHasBatch
  NoWriteLost
  NewestWins
PROPERTIES
  ErrorBlamesRefused
  WritesDrain
  Implements
CHECK_DEADLOCK FALSE
