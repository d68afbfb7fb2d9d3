SPECIFICATION Spec
CONSTANTS
  Nodes = {n1, n2}
  Writers = {w1, w2}
  Clients = {c1}
  MaxTime = 3
  MaxWrites = 2
INVARIANTS
  TypeOK
  NothingElseSkipped
PROPERTIES
  ChangesArrive
