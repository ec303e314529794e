CONSTANTS
  Threads = {t1, t2}
  Keys = {k1}
  Conns = {c1, c2}
  NoConn = NoConn
  Nobody = Nobody
  MaxCalls = 1
SPECIFICATION FairSpec
INVARIANTS
  TypeOK
  InUseExact
  NoLeak
  AuthOnce
  PooledNotClosed
PROPERTIES
  ParentConnsKept
  PoolMovesOn
