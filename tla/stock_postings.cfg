SPECIFICATION FairSpec
CONSTANTS
  t1 = t1
  t2 = t2
  t3 = t3
  c1 = c1
  c2 = c2
  d1 = d1
  d2 = d2
  NoDoc = NoDoc
  Before = Before
  Free = Free
  Unwritten = Unwritten
  Txs <- MCTxs
  Cells <- MCCells
  Docs <- MCDocs
  Plans <- MCPlans
  InitialStock <- MCStock
  InitialOuts <- MCOuts
INVARIANT PostingsSound
PROPERTIES ImplementsLedger EveryPostingEnds
CHECK_DEADLOCK FALSE
