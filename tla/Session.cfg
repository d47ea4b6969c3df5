SPECIFICATION Spec
CONSTANTS
  Users = {u1, u2}
  NoUser = NoUser
  Idle = Idle
INVARIANTS RequestCovered ScreenMatchesSession
