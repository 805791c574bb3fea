SPECIFICATION Spec
CONSTANTS
  Threads = {t1, t2}
  Conns = {c1, c2}
  NoConn = NoConn
  Keys = {k1}
  Values = {v1}
  Absent = Absent
  PrefixKeys <- MCPrefixKeys
  NoRequest = NoRequest
  Skews = {0}
  EngineMayFail = TRUE
  MaxCalls = 3
  MaxRestarts = 0
INVARIANTS ListDirIsWhole
CHECK_DEADLOCK FALSE
