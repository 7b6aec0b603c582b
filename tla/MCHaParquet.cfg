SPECIFICATION FairSpec
CONSTANTS
  h1 = h1
  h2 = h2
  v1 = v1
  v2 = v2
  v3 = v3
  a1 = a1
  a2 = a2
  NULL = NULL
  Absent = Absent
  Corrupt = Corrupt
  Handlers = {h1, h2}
  Contents = {v1, v2, v3}
  ShareAddrs = {a1, a2}
  Rows <- FileRows
  MaxSaved = 1
INVARIANTS
  TypeOK
  OneShare
  ScanExact
  PositionRoundTrip
PROPERTIES
  Refinement
  OpenEnds
CHECK_DEADLOCK TRUE
