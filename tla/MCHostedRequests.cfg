SPECIFICATION FairSpec
CONSTANTS
  Requests = {r1, r2, r3}
  Sessions = {s1, s2}
  None = None
  GateLimit = 2
  ToolLimit = 1
  ActionLimit = 1
  MaxConversations = 2
INVARIANTS WorkersBounded NothingLost StoresIsolated
PROPERTY RequestsEnd
