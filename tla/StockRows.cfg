CONSTANTS
  Workers = {w1, w2}
  Orders = {"o1", "o2", "o3"}
  Skus = {"s1", "s2"}
  Cart <- MCCart
  Qty <- MCQty
  Stock0 <- MCStock0
  MaxRetries = 1
  MaxFaults = 1
SPECIFICATION FairSpec
INVARIANTS
  LedgerKept
PROPERTIES
  ImplementsSteps
  Settled
CHECK_DEADLOCK FALSE
