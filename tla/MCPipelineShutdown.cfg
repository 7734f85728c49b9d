\* Default grouping by operation type; signals, stream errors, a collection
\* drop. The process ends once it is shut down.
CONSTANTS
  Streams <- MCStreams
  StreamLength <- ShutdownLength
  Log <- ShutdownLog
  Docs <- MCDocs
  Workers <- MCWorkers
  WorkerOf <- MCWorkerOf
  Namespace <- MCNamespace
  SaveThreshold = 2
  BatchSize = 2
  IngestCap = 1
  BatchCap = 1
  WriteCap = 1
  GroupOpsByDistinctId = FALSE
  ForceOrdered = FALSE
  Untransformable <- ShutdownUntransformable
  Clashing <- ShutdownClashing
  MayCancel = TRUE
  MaxRestarts = 0
SPECIFICATION FairSpec
INVARIANTS
  LossIsConfined
PROPERTIES
  ShutdownCompletes
CHECK_DEADLOCK FALSE
