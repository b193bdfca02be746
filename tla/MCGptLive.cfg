SPECIFICATION FairSpec
CONSTANTS
  Calls = {c1, c2, c3}
  NoCall = NoCall
  MaxSessions = 1
  TTL = 1
  MaxCalls = 2
  PlayOver <- RunningOrOver
  MaxGames = 1
  MaxSeq = 1
  MaxTime = 1
INVARIANTS TypeOK CallBudget OneToolPerGame OneCallAfterClosing
PROPERTIES SeqFollowsMatch CallsEnd
