SPECIFICATION FairSpec
CONSTANTS
  MaxCounter = 2
  MaxThreads = 2
  Impatient = FALSE
INVARIANTS
  AgentTypeOK
  OneDriver
  OneReader
PROPERTIES
  Recovers
  WatchDogEnds
\* The agent's process ends, and the stack may leave the port closed.
CHECK_DEADLOCK FALSE
