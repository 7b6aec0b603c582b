SPECIFICATION MCSpec
CONSTANTS
  t1 = t1
  t2 = t2
  h1 = h1
  h2 = h2
  p1 = p1
  v1 = v1
  v2 = v2
  t1_parquet = t1_parquet
  t2_parquet = t2_parquet
  line1_of_p1 = line1_of_p1
  Torn = Torn
  NoComment = NoComment
  NoTable = NoTable
  Missing = Missing
  Empty = Empty
  Idle = Idle
  Closed = Closed
  NULL = NULL
  Names = {t1, t2}
  Handlers = {h1, h2}
  Comments = {p1}
  Versions = {v1, v2}
  Rows <- RowCounts
  Default <- DefaultPaths
  FirstLine <- ReadLine
  DiskFails = TRUE
  Crashes = TRUE
INVARIANTS
  TypeOK
  OpensOwnPath
  ReadsOwnFile
  RecordsCoverScan
PROPERTIES
  Refinement
CHECK_DEADLOCK TRUE
