CONSTANTS
  c1 = c1
  c2 = c2
  None = None
  N = 3
  Instances = {c1, c2}
  Poison = {2}
  MaxRetries = 1
  MaxFaults = 0
SPECIFICATION FairSpec
PROPERTIES
  PoisonDeadLettered
CHECK_DEADLOCK FALSE
