SPECIFICATION Spec
CONSTANTS
  Openers = {p, q}
  Earlier = Earlier
  Nobody = Nobody
  Choices <- BuiltOptions
  EngineMayFail = TRUE
  MaxFiles = 3
  MaxCrashes = 1
SYMMETRY Symmetry
INVARIANTS TypeOK CreatedApart CreatedIsComplete FreshMeansNew LostToTruncate
PROPERTIES NothingUndone CreatedByCreator CreatedAsAllowed
CHECK_DEADLOCK FALSE
