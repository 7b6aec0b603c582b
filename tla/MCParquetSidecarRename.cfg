SPECIFICATION Spec
CONSTANTS
  t1 = t1
  t2 = t2
  h1 = h1
  h2 = h2
  p1 = p1
  p2 = p2
  t1_parquet = t1_parquet
  t2_parquet = t2_parquet
  line1_of_p2 = line1_of_p2
  Torn = Torn
  NoComment = NoComment
  NoTable = NoTable
  Missing = Missing
  Empty = Empty
  Idle = Idle
  Closed = Closed
  Names = {t1, t2}
  Handlers = {h1}
  Comments = {p1, p2}
  Default <- DefaultPaths
  FirstLine <- ReadLine
  DiskFails = FALSE
  Crashes = FALSE
INVARIANTS
  PathRemembered
CHECK_DEADLOCK TRUE
