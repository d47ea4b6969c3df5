SPECIFICATION Spec
CONSTANTS
  u1 = u1
  u2 = u2
  Users = {u1}
  Accounts = {1, 2}
  Owner <- MCOwner
  Malformed = {}
  NoUser = NoUser
  Unheard = Unheard
  NoAlert = NoAlert
  Failures = FALSE
  Revocable = FALSE
  MaxLoad = 3
INVARIANTS AlertNamesRow
