\* Distinct-id grouping, no cancellation; crashes and restarts.
CONSTANTS
  Streams <- MCStreams
  StreamLength <- SteadyLength
  Log <- SteadyLog
  Docs <- MCDocs
  Workers <- MCWorkers
  WorkerOf <- MCWorkerOf
  Namespace <- MCNamespace
  SaveThreshold = 2
  BatchSize = 2
  IngestCap = 1
  BatchCap = 1
  WriteCap = 1
  GroupOpsByDistinctId = TRUE
  ForceOrdered = FALSE
  Untransformable = {}
  Clashing <- SteadyClashing
  MayCancel = FALSE
  MaxRestarts = 1
SPECIFICATION FairSpec
INVARIANTS
  TypeOK
  CheckpointedDocIsSafe
  SettledDocIsCurrent
PROPERTIES
  TrackerRefined
  EventsAreSettled
