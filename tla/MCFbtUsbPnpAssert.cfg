CONSTANTS
  h1 = h1
  h2 = h2
  command = command
  eventRead = eventRead
  transfer = transfer
  refused = refused
  Requests <- MCTransfers
  Transfers <- MCTransfers
  EventReads <- MCNone
  Failing <- MCNone
  Handles <- MCOneHandle
  FileOf <- MCFileOf

SPECIFICATION Spec

PROPERTY
  AssertRemoved

CHECK_DEADLOCK FALSE
