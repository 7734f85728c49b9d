SPECIFICATION Spec
CONSTANTS
  Collections <- MCCollections
  Large = {}
  StartLimit = 1
  StartWorkers = 0
  MaxRequests = 0
  Contents = {}
  MaxOther = 0
  Indexes <- MCIndexes
  CollOf <- MCCollOf
  IdIndexes <- MCIdIndexes
  StableChecks = 2
  IndexConcurrency = 1
  MaxRetries = 1
  MaxEvents = 2
INVARIANTS
  NothingFollowsAnUnfinishedLoad
  FailuresAreReported
PROPERTIES
  BuildWaitsForLag
  CaughtUpStreamIsIndexed
CHECK_DEADLOCK FALSE
