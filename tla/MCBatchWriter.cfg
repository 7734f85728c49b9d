SPECIFICATION Spec
CONSTANTS
  Docs <- MCDocs
  NameOf <- MCNames
  MaxRetries = 2
  EnableBatchSplit = TRUE
  MinBatchSize = 1
  MaxLive = 2
  ReportMax = 1
INVARIANTS
  ReturnMeansSettled
  FailuresAreCounted
  ReportCountsOpenFailures
PROPERTIES
  InsertsKeepNewer
  WriteReturns
CHECK_DEADLOCK FALSE
