SPECIFICATION FairSpec
CONSTANTS
  Intervals = {1, 3}
  MaxCount <- Bounds
INVARIANTS
  TypeOK
  NoThreadOutlivesPlugin
  StopIsPrompt
  CountedOnce
  InstalledMonitorRuns
PROPERTIES
  DeinitEnds
CHECK_DEADLOCK TRUE
