SPECIFICATION MCSpec
CONSTANTS
  Values = {1, 2, 4}
  NULL = NULL
  MaxRows = 5
  MaxArgs = 2
  Names <- MCNames
  Addresses = {p1, p2}
  ResultLen = 255
  NoName = NoName
  NoPtr = NoPtr
  Threads = {t1, t2}
  NoThread = NoThread
  Seconds = 5
INVARIANTS
  TypeOK
  MedianOfGroup
  HeapBalanced
  BufferFreedOnce
  AnswerIsWhole
  LoggerTypeOK
  NoThreadOutlivesPlugin
  JoinsItsOwnThread
  InstalledLoggerRuns
  StopIsPrompt
PROPERTIES
  DeinitEnds
CHECK_DEADLOCK TRUE
