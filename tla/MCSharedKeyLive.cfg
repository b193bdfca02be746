SPECIFICATION FairSpec
CONSTANTS
  Workers = {w1, w2}
  Sessions = {s1, s2}
  NoWorker = NoWorker
  CacheTTL = 2
  ServerTTL = 3
  MaxHold = 1
  StateDir = FALSE
  Faults <- ServiceFaults
  MaxTime = 2
  MaxKeys = 2
  MaxPlays = 3
  MaxCrashes = 0
PROPERTY CallsEnd
