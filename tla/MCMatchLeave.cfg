SPECIFICATION Spec
CONSTANTS
  Calls = {c1, c2}
  Tickets = {t1, t2}
  Matches = {m1}
  NoTicket = NoTicket
  NoMatch = NoMatch
  MaxMatches = 1
SYMMETRY Symmetry
PROPERTIES LeaveErasesCancelled
