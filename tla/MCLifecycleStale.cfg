CONSTANTS
  NumDocs = 2
  Log <- MCLog
  Modes <- MCLive
  StartTimes <- MCNoStart
  ResyncFromSource = FALSE
  Console = FALSE
  MaxFailures = 0
  MaxMishaps = 0
SPECIFICATION LifecycleSafetySpec
INVARIANT
  FreshCopyRenewsDocuments
