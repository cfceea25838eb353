CONSTANTS
  h1 = h1
  h2 = h2
  command = command
  eventRead = eventRead
  transfer = transfer
  refused = refused
  Requests <- MCCountRequests
  Transfers <- MCTransfers
  EventReads <- MCNone
  Failing <- MCFailing
  Handles <- MCHandles
  FileOf <- MCSpreadFileOf

SPECIFICATION Spec

INVARIANTS
  TypeOK
  CountExact

PROPERTIES
  NothingAfterDelete

CHECK_DEADLOCK FALSE
