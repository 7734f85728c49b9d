\* Two operations on one document in a group, the later one failing.
CONSTANTS
  Streams <- MCStreams
  StreamLength <- PairLength
  Log <- RepeatedLog
  Docs <- MCDocs
  Workers <- OneWorker
  WorkerOf <- SameWorkerOf
  Namespace <- MCNamespace
  SaveThreshold = 2
  BatchSize = 2
  IngestCap = 1
  BatchCap = 1
  WriteCap = 1
  GroupOpsByDistinctId = FALSE
  ForceOrdered = FALSE
  Untransformable = {}
  Clashing = {}
  MayCancel = FALSE
  MaxRestarts = 0
SPECIFICATION Spec
PROPERTIES
  ResolvedMeansWritten
CHECK_DEADLOCK FALSE
