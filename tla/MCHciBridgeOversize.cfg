CONSTANTS
  w1 = w1
  p1 = p1
  p2 = p2
  l1 = l1
  l2 = l2
  e1 = e1
  e2 = e2
  None = None
  Writers <- MCWriters
  Packets <- MCPackets
  Oversize <- MCOversize
  Listeners <- MCListeners
  Events <- MCEvents

SPECIFICATION Spec

PROPERTY
  LengthReturnedWasSent
