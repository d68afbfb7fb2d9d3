INIT Init
NEXT Next
CONSTANTS
  o = o a = a b = b n1 = n1 n2 = n2 g1 = g1 p1 = p1 p2 = p2
  Procs = {p1, p2}
  Users = {o, a, b}
  Sys = {}
  NoUser = NoUser
  Nodes = {n1, n2}
  Sgis = {g1}
  Owner <- MCOwner
  Sgi <- MCSgi
  Edges <- MCEdges
  ReadPerm <- MCReadPerm
  SharePerm <- MCSharePerm
  NodeLists <- MCNodeLists
  TargetLists <- MCTargetLists
  DBMayFail = TRUE
  SelectE = TRUE
  MaxRestarts = 0
  MaxStrays = 1
  StrayLists = {{n1}}
SYMMETRY Symmetry
INVARIANTS TypeOK GrantsHaveOrigin GrantsRootedInOwner ResponsesReadable NoStaleGrantServed
