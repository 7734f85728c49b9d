CONSTANTS
  NumDocs = 2
  Log <- MCLog
  Modes <- MCBoth
  StartTimes <- MCStarts
  ResyncFromSource = FALSE
  Console = TRUE
  MaxFailures = 2
  MaxMishaps = 1
SPECIFICATION LifecycleSpec
INVARIANTS
  LifecycleTypeOK
  NothingLost
  FollowedDocumentsAreCurrent
PROPERTIES
  ReplicationResumes
