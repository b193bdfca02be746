SPECIFICATION Spec
CONSTANTS
  Requests = {r1, r2, r3, r4}
  Clients = {a, b}
  Ids = {i1, i2, i3, i4}
  None = None
  MaxSessions = 3
  MaxPerClient = 2
SYMMETRY Symmetry
INVARIANTS CapacityKept ClientShareKept ReservationsExact RefusedOnlyWhenFull
PROPERTY ImplementsPool
