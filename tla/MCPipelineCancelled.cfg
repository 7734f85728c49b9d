\* An interrupt while events are in flight.
CONSTANTS
  Streams <- MCStreams
  StreamLength <- PairLength
  Log <- PairLog
  Docs <- MCDocs
  Workers <- OneWorker
  WorkerOf <- SameWorkerOf
  Namespace <- MCNamespace
  SaveThreshold = 2
  BatchSize = 2
  IngestCap = 1
  BatchCap = 1
  WriteCap = 1
  GroupOpsByDistinctId = TRUE
  ForceOrdered = FALSE
  Untransformable = {}
  Clashing = {}
  MayCancel = TRUE
  MaxRestarts = 0
SPECIFICATION Spec
INVARIANTS
  NothingBehindATokenIsLost
CHECK_DEADLOCK FALSE
