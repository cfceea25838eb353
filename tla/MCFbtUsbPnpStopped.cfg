CONSTANTS
  h1 = h1
  h2 = h2
  command = command
  eventRead = eventRead
  transfer = transfer
  refused = refused
  Requests <- MCOneCommand
  Transfers <- MCNone
  EventReads <- MCNone
  Failing <- MCNone
  Handles <- MCOneHandle
  FileOf <- MCFileOf

SPECIFICATION Spec

PROPERTY
  StopMeansNoIo

CHECK_DEADLOCK FALSE
