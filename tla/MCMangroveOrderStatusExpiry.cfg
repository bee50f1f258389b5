SPECIFICATION Spec
CONSTANTS
  NoOrder = NoOrder
  NoTake = NoTake
  Wants = 4
  Fee = 1
  Gots = {1, 3}
  Amounts = {1, 2}
  Dates = {0, 1}
  MaxTime = 2
  MaxLog = 4
INVARIANT ExpiryIsTheDateSet
CHECK_DEADLOCK FALSE
