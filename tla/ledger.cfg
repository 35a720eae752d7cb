SPECIFICATION LedgerSpec
CONSTANTS
  m1 = m1
  m2 = m2
  f1 = f1
  f2 = f2
  f3 = f3
  Members = {m1, m2}
  Fees = {f1, f2, f3}
  Payments = {p1, p2}
  Declared = {p1, p2}
  Clerks = {}
  Penalties = {f2}
  Owner <- TwoMembers
  FeeOrder <- ThreeFees
  Amounts = {1, 2, 3}
  MaxAmount = 3
SYMMETRY PaymentSymmetry
INVARIANTS
  AllocationsBalance
  FeesNotOverpaid
  PaymentsBookedOnce
  BalanceIsOutstanding
