CONSTANTS
  Streams <- MCStreams
  StreamLength <- MCStreamLength
  SaveThreshold = 2
SPECIFICATION FairTrackerSpec
INVARIANTS
  TrackerTypeOK
  CheckpointCoversOnlyAcked
  CloseFlushesBoundary
PROPERTIES
  CheckpointNeverRegresses
  AckedProgressIsSaved
