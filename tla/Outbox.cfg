CONSTANTS
  p1 = p1
  p2 = p2
  Rows = {1, 2, 3}
  Pollers = {p1, p2}
  Limit = 2
  MaxAborts = 2
SPECIFICATION FairSpec
INVARIANTS
  CopiesBounded
PROPERTIES
  AllPublished
  ImplementsRelay
CHECK_DEADLOCK FALSE
