CONSTANTS
  h1 = h1
  eventRead = eventRead
  Requests <- MCEventReads
  Transfers <- MCNone
  EventReads <- MCEventReads
  Failing <- MCNone
  Handles <- MCHandles
  FileOf <- MCFileOf
  DeviceState <- MCDeviceState
  PnpOverlap <- MCPnpOverlap

SPECIFICATION PowerFairSpec

INVARIANTS
  PowerTypeOK
  PowerCountExact

PROPERTIES
  WaitsEndIdle
  AssertsHold
  PowerIsAnswered

CHECK_DEADLOCK FALSE
