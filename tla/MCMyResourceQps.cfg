SPECIFICATION Spec
CONSTANTS
  Intervals = {2}
  MaxCount <- Bounds
INVARIANTS
  QpsCountsOwnQueries
CHECK_DEADLOCK TRUE
