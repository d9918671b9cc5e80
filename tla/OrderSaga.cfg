CONSTANTS
  o1 = o1
  o2 = o2
  s1 = s1
  s2 = s2
  Orders = {o1, o2}
  Skus = {s1, s2}
  Qty <- MCQty
  Stock0 <- MCStock0
  MaxDups = 2
  MaxDead = 1
SPECIFICATION FairSpec
INVARIANTS
  SagaInv
  ConfirmedHoldsStock
  OneVerdict
  CompensationExact
  StockLedger
  EmailsAgree
PROPERTIES
  DecidedUnlessDead
  StockReturned
  ImplementsLifecycle
CHECK_DEADLOCK FALSE
