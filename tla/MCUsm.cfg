SPECIFICATION Spec
CONSTANTS
  Callers = {c1, c2}
  Uids = {u1}
  NoUid = NoUid
  Tids = {t1}
  Sgis = {g1, g2}
  NoChan = nil
INVARIANTS TypeOK RepliesAreAwaited
PROPERTIES AtomicCalls EveryCallReturns
