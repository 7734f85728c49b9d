SPECIFICATION ReaderSpec
CONSTANTS
  Ids <- MCIds
  Collections <- MCMixedCollections
  QuantileThreshold = 3
  Radix = 2
  Counts = {2}
  MaxReadPartitions = 2
  IdTypeSettings = {"mixed"}
  PageSize = 2
  MaxFloorRetries = 1
  MaxInserts = 0
INVARIANTS
  EveryDocumentIsRead
CHECK_DEADLOCK FALSE
