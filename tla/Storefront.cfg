CONSTANTS
  s1 = s1
  page1 = page1
  api1 = api1
  api2 = api2
  ann = ann
  bob = bob
  k1 = k1
  Skus = {s1}
  Stock0 <- MCStock0
  Absent = Absent
  Closed = Closed
  EditStocks = {}
  MaxEdits = 1
  Visits = {page1, api1, api2}
  Cart <- MCCart
  Customer <- MCCustomer
  Key <- MCKey
  NoKey = NoKey
  Browsers = {page1}
  MaxTries <- MCTries
  MaxRequests = 3
SPECIFICATION Spec
INVARIANTS
  OneOrderPerKey
  AnswersAgree
  PaidVisitOrdersOnce
PROPERTIES
  StockOnlyByAdmin
CHECK_DEADLOCK FALSE
