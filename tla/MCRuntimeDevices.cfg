SPECIFICATION FairSpec
CONSTANTS
  p1 = p1
  p2 = p2
  None = None
  Plugins <- MCPlugins
  Slots <- MCSlots
  Adapters <- MCAdapters
  Queries <- MCQueries
  Listens = 2
  StackCommands <- MCStackCommands
  Leaving <- MCLeaving
  Removable <- MCRemovable
  Failing <- MCFailing
INVARIANTS
  DevicesTypeOK
  HandlesAreOwned
  ReadersAreJoined
  AnswersAreTaken
  InfoIsCurrent
  HandlersFindQuery
PROPERTIES
  CallsReturn
  DisconnectCloses
CHECK_DEADLOCK FALSE
