CONSTANTS
  c1 = c1
  c2 = c2
  None = None
  N = 3
  Instances = {c1, c2}
  Poison = {3}
  MaxRetries = 1
  MaxFaults = 5
SPECIFICATION FairSpec
INVARIANTS
  NothingSkipped
PROPERTIES
  AllDone
CHECK_DEADLOCK FALSE
