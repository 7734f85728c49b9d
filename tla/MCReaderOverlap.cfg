SPECIFICATION ReaderSpec
CONSTANTS
  Ids <- MCStrings
  Collections <- MCStringCollections
  QuantileThreshold = 3
  Radix = 2
  Counts = {2, 3, 5}
  MaxReadPartitions = 3
  IdTypeSettings = {"auto", "objectid", "numeric"}
  PageSize = 2
  MaxFloorRetries = 1
  MaxInserts = 1
INVARIANTS
  NoRangeIsScannedAgain
CHECK_DEADLOCK FALSE
