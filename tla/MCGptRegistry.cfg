SPECIFICATION Spec
CONSTANTS
  Calls = {c1, c2}
  NoCall = NoCall
  MaxSessions = 2
  TTL = 1
  MaxCalls = 2
  PlayOver <- RunningOrOver
  MaxGames = 3
  MaxSeq = 0
  MaxTime = 1
SYMMETRY Symmetry
INVARIANTS RegistryBounded OpenIsRegistered
PROPERTIES EvictsLeastRecent ClosedIsFinal ImplementsSession
