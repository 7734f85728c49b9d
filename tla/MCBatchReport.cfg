SPECIFICATION Spec
CONSTANTS
  Docs <- MCDocs
  NameOf <- MCDistinctNames
  MaxRetries = 2
  EnableBatchSplit = TRUE
  MinBatchSize = 1
  MaxLive = 2
  ReportMax = 1
INVARIANTS
  ReportShowsOpenFailures
CHECK_DEADLOCK FALSE
