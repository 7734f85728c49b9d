SPECIFICATION Spec
CONSTANTS
  AllDocs <- MCDocs
  Sources <- MCLongSource
  QuantileThreshold = 5
  Radix = 2
  Counts = {1, 2}
  Workers = {w1}
  ChanCap = 1
  BatchSize = 1
  SaveThreshold = 2
  DiscoveryFails = {FALSE}
  MaxAttempts = 1
PROPERTIES
  AttemptsEnd
CHECK_DEADLOCK FALSE
