\* A replace the target refuses for another document's sake.
CONSTANTS
  Streams <- MCStreams
  StreamLength <- PairLength
  Log <- ClashLog
  Docs <- MCDocs
  Workers <- OneWorker
  WorkerOf <- SameWorkerOf
  Namespace <- MCNamespace
  SaveThreshold = 2
  BatchSize = 1
  IngestCap = 1
  BatchCap = 1
  WriteCap = 1
  GroupOpsByDistinctId = TRUE
  ForceOrdered = FALSE
  Untransformable = {}
  Clashing <- ClashClashing
  MayCancel = FALSE
  MaxRestarts = 0
SPECIFICATION Spec
INVARIANTS
  NothingBehindATokenIsLost
CHECK_DEADLOCK FALSE
