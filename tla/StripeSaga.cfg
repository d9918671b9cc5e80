CONSTANTS
  o1 = o1
  o2 = o2
  s1 = s1
  Orders = {o1, o2}
  Skus = {s1}
  Prepaid = {o2}
  Qty <- MCQty
  Stock0 <- MCStock0
  MaxDups = 1
  MaxDead = 1
  DeadTypes = {"InventoryReserved"}
SPECIFICATION StripeFairSpec
INVARIANTS
  ChargedOnce
  OutcomesAgree
  ChargeMatchesOrder
PROPERTIES
  ChargeRecovered
  ImplementsOrderLog
CHECK_DEADLOCK FALSE
