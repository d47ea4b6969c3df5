SPECIFICATION FairSpec
CONSTANTS
  u1 = u1
  u2 = u2
  Users = {u1, u2}
  Accounts = {1, 2, 3}
  Owner <- MCOwner
  Malformed = {}
  NoUser = NoUser
  Unheard = Unheard
  NoAlert = NoAlert
  Failures = FALSE
  Revocable = TRUE
  MaxLoad = 3
PROPERTIES OwnListStays OwnListReturns RefreshEnds
