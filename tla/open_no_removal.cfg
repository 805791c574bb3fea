SPECIFICATION FairSpec
CONSTANTS
  Openers = {p, q, r}
  Earlier = Earlier
  Nobody = Nobody
  Choices <- WithoutRemoval
  EngineMayFail = FALSE
  MaxFiles = 1
  MaxCrashes = 0
INVARIANTS OneCreator SomeoneCompletes
PROPERTIES FileBecomesStore
CHECK_DEADLOCK FALSE
