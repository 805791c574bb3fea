SPECIFICATION Spec
CONSTANTS
  Tasks = {t1, t2, t3}
  Keys = {k1, k2}
  Values = {v1}
  Absent = Absent
  PrefixKeys <- MCPrefixKeys
  NoRequest = NoRequest
  Skews = {0, 1}
  EngineMayFail = TRUE
  MaxCalls = 3
  MaxDrops = 1
SYMMETRY Symmetry
INVARIANTS TypeOK OkMeansStamped StampedUnlessAbandoned CheckpointSaves
PROPERTIES StampFollowsClock Linearizable
CHECK_DEADLOCK FALSE
