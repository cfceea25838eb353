SPECIFICATION Spec
CONSTANTS
  i1 = i1
  i2 = i2
  NoIrp = NoIrp
  Irps <- MCOne
  HubWaits = FALSE
  MaxLeaks = 1
  PnpSent <- PnpIrps
INVARIANTS
  SuspendCountExact
PROPERTIES
  SuspendWaitsEndIdle
CHECK_DEADLOCK FALSE
