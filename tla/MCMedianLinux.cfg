SPECIFICATION MCSpec
CONSTANTS
  Values = {1, 2, 4}
  NULL = NULL
  MaxRows = 2
  MaxArgs = 2
  Names <- MCNames
  Addresses = {p1, p2}
  ResultLen = 255
  NoName = NoName
  NoPtr = NoPtr
  Threads = {t1, t2}
  NoThread = NoThread
  Seconds = 5
INVARIANTS
  LinuxMedian
CHECK_DEADLOCK TRUE
