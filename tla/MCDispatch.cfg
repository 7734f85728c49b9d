SPECIFICATION DispatchSpec
CONSTANTS
  Collections <- MCCollections
  Large <- MCLarge
  StartLimit = 1
  StartWorkers = 0
  MaxRequests = 2
  Contents <- MCContents
  MaxOther = 1
INVARIANTS
  LimitFollowsConfig
  TuningReachesQueued
PROPERTIES
  LoadEnds
CHECK_DEADLOCK FALSE
