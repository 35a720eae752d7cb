SPECIFICATION Spec
CONSTANTS
  m1 = m1
  f1 = f1
  f2 = f2
  Members = {m1}
  Fees = {f1, f2}
  Payments = {p1, p3}
  Declared = {p3}
  Clerks = {c1}
  Penalties = {}
  Owner <- TwoFeesOwner
  FeeOrder <- TwoFees
  Amounts = {1, 2}
  MaxAmount = 4
  Txs = {1}
  Clients = {c1}
  Channels = {mobile}
  CallbackIds = {"token"}
  MayLapse = {}
INVARIANTS
  SpentOnSelectedFees
  TotalPaidIsValidated
  NeverOverbilled
CHECK_DEADLOCK FALSE
