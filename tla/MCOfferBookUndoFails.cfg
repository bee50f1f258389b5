SPECIFICATION Spec
CONSTANTS
  NoRow = NoRow
  NoOffer = NoOffer
  MaxVersion = 3
  MaxEvents = 3
  MaxStratEvents = 2
  rest = rest
  other = other
  placing = placing
  taking = taking
  mo = mo
  user = user
  kandel = kandel
  vault = vault
  base = base
  quote = quote
  Offers = {rest, other}
  Orders = {placing, taking}
  MangroveOrders = {mo}
  Accounts = {user, kandel, vault}
  Tokens = {base, quote}
  ListOf <- MCListOf
  Inbound <- MCInbound
  Outbound <- MCOutbound
  MakerOf <- MCMakerOf
  TakerOf <- MCTakerOf
  ReserveOf <- MCReserveOf
  OrderOf <- MCOrderOf
  RestingOf <- MCRestingOf
  Gave = 2
  Got = 1
  Dates = {7}
  Tx = {x1}
INVARIANT UndoNeverFails
CHECK_DEADLOCK FALSE
