CONSTANTS
  h1 = h1
  h2 = h2
  command = command
  eventRead = eventRead
  transfer = transfer
  refused = refused
  Requests <- MCOwnRequests
  Transfers <- MCNone
  EventReads <- MCEventReads
  Failing <- MCNone
  Handles <- MCHandles
  FileOf <- MCSpreadFileOf

SPECIFICATION FairSpec

PROPERTIES
  WaitEndsIdle
  AssertsHold
  PnpIsAnswered

CHECK_DEADLOCK FALSE
