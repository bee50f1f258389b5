SPECIFICATION Spec
CONSTANTS
  o1 = o1
  o2 = o2
  o3 = o3
  p = p
  r = r
  c = c
  x = x
  Txs <- MCTxs
  Kind <- MCKind
  Offers <- MCOffers
  Gives <- MCGives
  MaxTime = 2
  MaxLog = 5
INVARIANTS
  TypeOK
  OffersAtTime
  SnapshotsComplete
  PeriodsAreReplay
SYMMETRY MCOrders
CHECK_DEADLOCK FALSE
