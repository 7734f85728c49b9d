SPECIFICATION Spec
CONSTANTS
  Layouts <- MCLayouts
  MaxToken = 4
  PerSecond = 2
  Backups = 3
  MaxCrashes = 2
  MaxCorruptions = 1
  MaxFaults = 1
INVARIANTS
  TokenStoreTypeOK
  StreamStartsBehindEveryPartition
  RefusalHasACause
  ProgressStaysOnDisk
  CorruptionCostsOneSave
CHECK_DEADLOCK FALSE
