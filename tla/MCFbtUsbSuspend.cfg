SPECIFICATION FairSpec
CONSTANTS
  i1 = i1
  i2 = i2
  NoIrp = NoIrp
  Irps <- MCIrps
  HubWaits = TRUE
  MaxLeaks = 0
  PnpSent = {"OTHER"}
INVARIANTS
  SuspendTypeOK
  OneIdleRequest
PROPERTIES
  RequestIsReleased
CHECK_DEADLOCK FALSE
