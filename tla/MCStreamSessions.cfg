SPECIFICATION FairSpec
CONSTANTS
  NoRow = NoRow
  MaxVersion = 2
  BatchSize = 2
  MaxFaults = 1
  m1 = m1
  m2 = m2
  Streams <- MCStreams
  Scripts <- MCScripts
  Keys <- MCKeys
  MangroveOrders = {m1, m2}
  OrderOf <- MCOrderOf
INVARIANTS
  TypeOK
  Serialisable
  ThrowsOnlyWhenRefused
PROPERTIES
  AtomicUnlessOvertaken
  UnlinkedOnlyWhenOvertaken
  AllHandledUnlessLost
CHECK_DEADLOCK FALSE
