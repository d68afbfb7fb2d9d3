SPECIFICATION Spec
CONSTANTS
  c1 = c1 u1 = u1 p1 = p1 p2 = p2
  Slots = {p1, p2}
  Clients = {c1}
  NoClient = NoClient
  User <- MCUser
  Admins = {}
  NoToken = NoToken
  TokenExpiry = 2
  MaxTime = 2
  MaxLogins = 2
  MaxRestarts = 1
SYMMETRY Symmetry
INVARIANTS TypeOK SessionsStayOver IdleSessionsExpire RefusedOnlyWhenOver UserKnownToHandlers
