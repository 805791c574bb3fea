SPECIFICATION FairSpec
CONSTANTS
  Threads = {t1, t2, t3}
  Conns = {c1, c2}
  NoConn = NoConn
  Keys = {k1}
  Values = {v1}
  Absent = Absent
  PrefixKeys <- MCPrefixKeys
  NoRequest = NoRequest
  Skews = {0}
  EngineMayFail = FALSE
  MaxCalls = 3
  MaxRestarts = 0
PROPERTIES EveryCallReturns
CHECK_DEADLOCK FALSE
