SPECIFICATION Spec
CONSTANTS
  m1 = m1
  f1 = f1
  f2 = f2
  Members = {m1}
  Fees = {f1}
  Payments = {p1}
  Declared = {}
  Clerks = {}
  Penalties = {}
  Owner <- OneFeeOwner
  FeeOrder <- OneFee
  Amounts = {2}
  MaxAmount = 2
  Txs = {1, 2}
  Clients = {c1, c2}
  Channels = {mobile}
  CallbackIds = {"token"}
  MayLapse = {}
INVARIANTS
  OneActiveCheckout
CHECK_DEADLOCK FALSE
