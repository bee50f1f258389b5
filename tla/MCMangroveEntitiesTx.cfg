SPECIFICATION Spec
CONSTANTS
  NoRow = NoRow
  Undefined = Undefined
  MaxVersion = 3
  MaxLog = 5
  m = m
  list = list
  t1 = t1
  t2 = t2
  Mangroves = {m}
  OfferListings = {list}
  MakerBalances = {b}
  TakerApprovals = {a}
  MangroveField = {"gasprice", "dead"}
  OfferListField = {"fee"}
  ParamValue = {1}
  Change <- MCChange
  Amount = {0, 5}
  TokensOf <- MCTokensOf
  MangroveOf <- MCMangroveOf
  ListOf <- MCListOf
  Tx = {x1, x2}
INVARIANT VersionNamesItsTransaction
CHECK_DEADLOCK FALSE
