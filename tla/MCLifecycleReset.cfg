CONSTANTS
  NumDocs = 2
  Log <- MCLog
  Modes <- MCLive
  StartTimes <- MCNoStart
  ResyncFromSource = FALSE
  Console = FALSE
  MaxFailures = 2
  MaxMishaps = 0
SPECIFICATION LifecycleSafetySpec
INVARIANT
  ResetIsNotRefused
