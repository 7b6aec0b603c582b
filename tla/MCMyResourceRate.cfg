SPECIFICATION Spec
CONSTANTS
  Intervals = {2, 3}
  MaxCount <- Bounds
INVARIANTS
  RatesArePerSecond
CHECK_DEADLOCK TRUE
