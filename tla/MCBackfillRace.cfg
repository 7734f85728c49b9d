SPECIFICATION Spec
CONSTANTS
  AllDocs <- MCDocs
  Sources <- MCSources
  QuantileThreshold = 5
  Radix = 2
  Counts = {1, 2}
  Workers = {w1, w2}
  ChanCap = 1
  BatchSize = 1
  SaveThreshold = 1
  DiscoveryFails = {FALSE}
  MaxAttempts = 2
INVARIANTS
  NoErrorIsOverlooked
CHECK_DEADLOCK FALSE
