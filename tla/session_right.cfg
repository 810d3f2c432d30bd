SPECIFICATION FairSpec
CONSTANTS
  c1 = c1  c2 = c2
  Conns = {c1, c2}
  NoConn = NoConn
  Auths = {"none", "token", "client"}
  Life = 6
  Delta = 5
  TokenTimeout = 2
  ApiTimeout = 3
  MaxBatch = 2
  MaxStmts = 3
  MaxClock = 5
CHECK_DEADLOCK FALSE
INVARIANTS OneServes TokenIsLive ShortOnlyAfterRefresh BatchIsTried
PROPERTY EveryInputEnds
