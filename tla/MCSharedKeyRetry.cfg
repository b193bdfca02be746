SPECIFICATION Spec
CONSTANTS
  Workers = {w1, w2}
  Sessions = {s1, s2}
  NoWorker = NoWorker
  CacheTTL = 2
  ServerTTL = 3
  MaxHold = 1
  StateDir = TRUE
  Faults <- RevokeOnly
  MaxTime = 4
  MaxKeys = 3
  MaxPlays = 2
  MaxCrashes = 1
SYMMETRY Symmetry
INVARIANT RetryUsesFreshKey
