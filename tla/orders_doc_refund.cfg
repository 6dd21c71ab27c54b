SPECIFICATION Spec
CONSTANTS
  c1 = c1
  c2 = c2
  p1 = p1
  p2 = p2
  Clerks <- OneClerk
  Racing <- Overwriting
  Orders <- LongNumbers
  Products <- MCProducts
  Tracked <- MCTracked
  Price <- MCPrice
  Stock <- MCStock
  Carts <- MCCarts
  Extras <- MCExtras
  Handoffs <- MCHandoffs
  Amounts <- MCAmounts
  Deposits <- MCDeposits
  MaxPayments = 2
PROPERTY RefundsOwnPayments
CHECK_DEADLOCK FALSE
