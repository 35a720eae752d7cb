SPECIFICATION Spec
CONSTANTS
  m1 = m1
  f1 = f1
  f2 = f2
  Members = {m1}
  Fees = {f1}
  Payments = {p1, p2, p3}
  Declared = {p3}
  Clerks = {}
  Penalties = {}
  Owner <- OneFeeOwner
  FeeOrder <- OneFee
  Amounts = {2}
  MaxAmount = 2
  Txs = {1, 2}
  Clients = {c1, c2}
  Channels = {mobile}
  CallbackIds = {"token"}
  MayLapse = {1}
SYMMETRY Symmetry
INVARIANTS
  CheckoutInv
  SettledOnce
  OnlyCollectedMoneyBooked
PROPERTY
  SettledIsFinal
  KeepsTheBook
CHECK_DEADLOCK FALSE
