CONSTANTS
  Emails <- MCEmails
  Admins <- MCAdmins
  Nobody = "nobody"
  MaxActs = 2
  Prices = {40, 60}
  FirstPrice = 60
  MaxQty = 2
  MinCharge = 50
  Orders = {1, 2}
  Logged = {2}
  ByAge <- MCByAge
  Past = 1
  Unhealthy = {"payment-service"}
  LLM = TRUE
  Asked <- MCAsked
  EventLimit = 3
  OrderLimit = 2
  MaxLoads = 2
SPECIFICATION FairSpec
INVARIANTS
  SessionAgrees
  ChargedAtOnePrice
  StatusFitsSteps
  OutcomesHold
  OneStory
PROPERTIES
  CatchesUp
  Answered
CHECK_DEADLOCK FALSE
