SPECIFICATION Spec
CONSTANTS
  AllDocs <- MCDocs
  Sources <- MCSources
  QuantileThreshold = 5
  Radix = 2
  Counts = {1, 2}
  Workers = {w1, w2}
  ChanCap = 1
  BatchSize = 1
  SaveThreshold = 1
  DiscoveryFails = {FALSE, TRUE}
  MaxAttempts = 2
SYMMETRY MCSymmetry
INVARIANTS
  EveryPlanReadsTheRest
  SuccessMeansSettled
PROPERTIES
  BackfillIsACopy
CHECK_DEADLOCK FALSE
