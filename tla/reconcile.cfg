SPECIFICATION FairReconSpec
CONSTANTS
  m1 = m1
  f1 = f1
  f2 = f2
  Members = {m1}
  Fees = {f1}
  Payments = {p1, p2}
  Declared = {}
  Clerks = {}
  Penalties = {}
  Owner <- OneFeeOwner
  FeeOrder <- OneFee
  Amounts = {1}
  MaxAmount = 1
  Txs = {1, 2}
  Clients = {c1}
  Channels = {mobile}
  CallbackIds = {}
  MayLapse = {}
  Runs = {r1, r2}
  Limit = 2
  MaxErrors = 1
PROPERTY
  ReconciledUnlessDoomed
  KeepsTheBook
CHECK_DEADLOCK FALSE
