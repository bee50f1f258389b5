SPECIFICATION Spec
CONSTANTS
  NoOrder = NoOrder
  NoTake = NoTake
  Wants = 4
  Fee = 1
  Gots = {1, 3}
  Amounts = {1, 2}
  Dates = {0, 1}
  MaxTime = 2
  MaxLog = 7
INVARIANTS
  TypeOK
  StatusIsThatOfChain
  FillsAreReplay
PROPERTIES
  ClosedStaysClosed
CHECK_DEADLOCK FALSE
