SPECIFICATION Spec
CONSTANTS
  NoRow = NoRow
  MaxVersion = 2
  BatchSize = 2
  MaxFaults = 1
  m1 = m1
  m2 = m2
  Streams <- MCStreams
  Scripts <- MCRacingScripts
  Keys <- MCKeys
  MangroveOrders = {m1, m2}
  OrderOf <- MCOrderOf
INVARIANT VersionsChained
CHECK_DEADLOCK FALSE
