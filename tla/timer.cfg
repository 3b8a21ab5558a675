SPECIFICATION TimerSpec
CONSTANTS
  NONE = NONE
  MaxID = 3
  Delays <- SomeDelays
  Unit <- Units
  Capacity = 3
  MaxSchedules = 3
  MaxCancels = 1
  MaxNow = 4
  MaxSlip = 1
INVARIANTS HeapConsistent Armed
PROPERTY Runs
CHECK_DEADLOCK FALSE
