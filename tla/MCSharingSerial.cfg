SPECIFICATION Spec
CONSTANTS
  o = o a = a s = s n1 = n1 n2 = n2 n3 = n3 g1 = g1 g2 = g2 p1 = p1
  Procs = {p1}
  Users = {o, a, s}
  Sys = {s}
  NoUser = NoUser
  Nodes = {n1, n2, n3}
  Sgis = {g1, g2}
  Owner <- MCOwner
  Sgi <- MCSgi
  Edges <- MCEdges
  ReadPerm <- MCReadPerm
  SharePerm <- MCSharePerm
  NodeLists <- MCNodeLists
  TargetLists <- MCTargetLists
  DBMayFail = FALSE
  SelectE = FALSE
  MaxRestarts = 1
  MaxStrays = 0
  StrayLists = {}
INVARIANTS QuiescentGrantsBacked
PROPERTIES PrimingRecovers
