SPECIFICATION Spec
CONSTANTS
  Threads = {t1, t2}
  Conns = {c1, c2, c3}
  NoConn = NoConn
  Keys = {k1, k2}
  Values = {v1, v2}
  Absent = Absent
  PrefixKeys <- MCPrefixKeys
  NoRequest = NoRequest
  Skews = {0, 1}
  EngineMayFail = TRUE
  MaxCalls = 3
  MaxRestarts = 1
SYMMETRY Symmetry
INVARIANTS TypeOK PoolConserved OkMeansStamped NoHoldAndWait
PROPERTIES StampFollowsClock Linearizable
CHECK_DEADLOCK FALSE
