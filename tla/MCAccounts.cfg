SPECIFICATION Spec
CONSTANTS
  Names = {ann, bob, tilde}
  Reserved = {tilde}
  Pws = {pw1, pw2, short}
  ShortPws = {short}
  Empty = Empty
  Unset = Unset
  Roles = {"sys", "user"}
  Logins = {p1}
  SessionIds = {s1, s2}
  MaxUsers = 2
  MaxPatches = 1
SYMMETRY Symmetry
INVARIANTS
  TypeOK
  SessionsMatchAccounts
  
CHECK_DEADLOCK FALSE
