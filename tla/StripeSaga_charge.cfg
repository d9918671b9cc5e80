CONSTANTS
  o1 = o1
  o2 = o2
  s1 = s1
  Orders = {o1, o2}
  Skus = {s1}
  Prepaid = {o2}
  Qty <- MCQty
  Stock0 <- MCStock0
  MaxDups = 0
  MaxDead = 0
  DeadTypes = {}
SPECIFICATION StripeSpec
INVARIANTS
  NoChargeMade
CHECK_DEADLOCK FALSE
