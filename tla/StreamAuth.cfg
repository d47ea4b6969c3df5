SPECIFICATION FairSpec
CONSTANTS
  Users = {u1, u2}
  u1 = u1
  u2 = u2
  Nobody = Nobody
  AtLaunch = {u1, Nobody}
  MaxChanges = 2
  MaxWrites = 2
INVARIANTS
  Consistent
  StreamUsesItsUser
  FiledUnderOwner
PROPERTIES
  CredentialsSettle
CHECK_DEADLOCK FALSE
