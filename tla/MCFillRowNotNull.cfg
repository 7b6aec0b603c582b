SPECIFICATION MCSpec
CONSTANTS
  NULL = NULL
  NumFields = 4
  Nullable = {0, 1, 3}
  NumColumns = 3
  NumRows = 4
  NumChunks <- Chunking
  Len <- Lengths
  Start <- Sums
  Nulls <- NullCells
  Unprintable <- BadCells
  Days <- MCDays
  Millis <- MCMillis
  Stamps <- MCStamps
  Halfs <- MCHalfs
  Wrapped = Wrapped
  NoCell = NoCell
INVARIANTS
  AllFieldsReadRow
CHECK_DEADLOCK TRUE
