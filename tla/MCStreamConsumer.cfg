SPECIFICATION FairSpec
CONSTANTS
  BatchSize = 2
  Retries = 1
  MaxTime = 1
  MaxFaults = 1
  TokenEvents = 2
  MangroveEvents = 1
  StratsEvents = 1
  KandelEvents = 1
  MaxLength <- MCMaxLength
INVARIANTS
  TypeOK
  AppliedExactlyOnce
  PreloadCoversNeeds
PROPERTY EventuallyIndexed
PROPERTY KandelEventuallyIndexed
CHECK_DEADLOCK FALSE
