SPECIFICATION Spec
CONSTANTS
  Workers = {w1, w2}
  Sessions = {s1, s2}
  NoWorker = NoWorker
  CacheTTL = 2
  ServerTTL = 3
  MaxHold = 1
  StateDir = TRUE
  Faults <- CacheFaults
  MaxTime = 4
  MaxKeys = 3
  MaxPlays = 3
  MaxCrashes = 1
SYMMETRY Symmetry
INVARIANTS TypeOK CachedKeyUnexpired CacheTiersAgree DroppedKeysStayOut OnboardingSlotHeld
PROPERTY MintSpacing
