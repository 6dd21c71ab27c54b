SPECIFICATION StopsSpec
CONSTANTS
  c1 = c1
  Clerks <- OneClerk
  MaxStops = 3
  MaxDeliveries = 2
INVARIANTS  StopsAgree
CHECK_DEADLOCK FALSE
