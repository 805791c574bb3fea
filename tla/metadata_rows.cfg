CONSTANTS
  Secs <- MCSecs
  Millis <- MCMillis
  Rests <- MCRests
  Offsets <- MCOffsets
  Numbers = {0, 1, 3, 4}
  MaxU64 = 3
  Pieces <- MCPieces
  UnknownKeys = {"created_at"}
  Values = {"v"}
  None = None
  Invalid = Invalid
  Junk = Junk
  ForeignRows <- MCForeignRows
SPECIFICATION Spec
INVARIANTS TypeOK CreatedReads StampReadsBack PrintedReadsBack
PROPERTIES MeaningKept
