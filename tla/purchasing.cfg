SPECIFICATION Spec
CONSTANTS
  c1 = c1
  c2 = c2
  Clerks <- MCClerks
  Does <- MCDoes
  Lines <- MCLines
  UnitCost <- MCUnitCost
  MaxQty = 1
  MaxTotal = 2
  MaxReceipts = 2
  MaxBills = 2
  MaxEditions = 1
INVARIANTS NotOverReceived PurchasesAgree
PROPERTY VoidIsFinal
CHECK_DEADLOCK FALSE
