SPECIFICATION Spec
CONSTANTS
  u1 = u1
  u2 = u2
  t1 = t1
  t2 = t2
  t3 = t3
  Procs = {p1, p2}
  Users = {u1, u2}
  Sys = {}
  NoUser = NoUser
  Temps = {t1, t2, t3}
  MaxNodes = 3
  MaxSgis = 2
  MaxRequests = 3
  RootPerms <- RootPermsMC
  CreateLists <- CreateListsMC
  Bodies <- BodiesMC
  NestedLists <- NestedListsMC
  Grants <- GrantsMC
SYMMETRY Symmetry
INVARIANTS TypeOK EnvelopesKept NoOrphans WritesAuthorised CreationsComplete NewNodesReachable
CHECK_DEADLOCK FALSE
