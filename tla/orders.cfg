SPECIFICATION Spec
CONSTANTS
  c1 = c1
  c2 = c2
  p1 = p1
  p2 = p2
  Clerks <- TwoClerks
  Racing <- Overwriting
  Orders <- TwoOrders
  Products <- MCProducts
  Tracked <- MCTracked
  Price <- MCPrice
  Stock <- MCStock
  Carts <- MCCarts
  Extras <- MCExtras
  Handoffs <- MCHandoffs
  Amounts <- MCAmounts
  Deposits <- MCDeposits
  MaxPayments = 2
 
PROPERTY MovesForward
CHECK_DEADLOCK FALSE
SYMMETRY ClerkSymmetry
