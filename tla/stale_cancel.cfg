SPECIFICATION LedgerSpec
CONSTANTS
  m1 = m1
  m2 = m2
  f1 = f1
  f2 = f2
  f3 = f3
  Members = {m1}
  Fees = {f1, f2}
  Payments = {p1}
  Declared = {p1}
  Clerks = {c1}
  Penalties = {}
  Owner <- OneMember
  FeeOrder <- TwoFees
  Amounts = {1, 2}
  MaxAmount = 2
PROPERTY
  PaidFeeNotCancelled
CHECK_DEADLOCK FALSE
