SPECIFICATION Spec
CONSTANTS
  Calls = {c1, c2}
  Tickets = {t1, t2}
  Matches = {m1, m2, m3}
  NoTicket = NoTicket
  NoMatch = NoMatch
  MaxMatches = 2
SYMMETRY Symmetry
INVARIANTS TypeOK ForgottenWhenCrowded
PROPERTIES ErasedIsSettled
