SPECIFICATION Spec
CONSTANTS
  MaxCounter = 2
  MaxThreads = 3
  Impatient = TRUE
INVARIANT AssertNoDevice
CHECK_DEADLOCK FALSE
