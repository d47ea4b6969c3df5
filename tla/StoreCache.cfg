SPECIFICATION Spec
CONSTANTS
  u1 = u1
  u2 = u2
  Users = {u1, u2}
  Accounts = {1, 2, 4}
  Owner <- MCOwner
  Malformed = {4}
  NoUser = NoUser
  Unheard = Unheard
  NoAlert = NoAlert
  Failures = TRUE
  Revocable = FALSE
  MaxLoad = 4
INVARIANTS ScreenCurrent NoDuplicates
PROPERTIES AgreementKept ForeignOnlyByLateAnswer
