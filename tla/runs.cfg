SPECIFICATION Spec
CONSTANTS
  c1 = c1
  c2 = c2
  r1 = r1
  p1 = p1
  p2 = p2
  alice = alice
  b1 = b1
  NoPromise = NoPromise
  NoRefill = NoRefill
  Clerks = {c1, c2}
  Runs = {r1}
  Customers = {alice}
  Products = {p1, p2}
  Tracked = {p1}
  Price <- MCPrice
  Stock <- MCStock
  Batches = {b1}
  Scenes <- MCScenes
SYMMETRY ClerksAlike
INVARIANTS RunsAgree WritesStand
PROPERTIES ClosedIsFinal PromiseKept CountedOnce
CHECK_DEADLOCK FALSE
