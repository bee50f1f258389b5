SPECIFICATION Spec
CONSTANTS
  NoRow = NoRow
  Undefined = Undefined
  k1 = k1
  k2 = k2
  vault = vault
  o1 = o1
  o2 = o2
  Kandels = {k1, k2}
  Vaults = {vault}
  Tokens = {base}
  Offers = {o1, o2}
  ReserveOf <- MCReserveOf
  KandelOf <- MCKandelOf
  CreateFields = {{"admin", "gasReq", "length"}}
  ParamsFields = {{"gasPrice"}, {"gasReq", "geometric"}, {"admin"}}
  ParamValue = {1}
  Amount = {3}
  MaxVersion = 3
  MaxConfig = 4
  MaxLog = 4
INVARIANTS
  TypeOK
  ConfigIsReplay
  ConfigsOfVersions
  ReserveBalanceIsReplay
  EventsOfSurvivors
  ParametersAreReplay
  DepositsAddUp
  ReferencesResolve
PROPERTIES
  UndoRestores
CHECK_DEADLOCK FALSE
