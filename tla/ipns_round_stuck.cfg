SPECIFICATION IFairSpec
CONSTANTS
  IMaxChain = 2
  IIndexers <- MCIndexer
  ISetups <- MCAlone
  IValues = {"a", "b"}
  IMaxChanges = 0
  IMaxFaults = 0
  IMaxCrashes = 0
PROPERTY RoundsEnd
CHECK_DEADLOCK FALSE
