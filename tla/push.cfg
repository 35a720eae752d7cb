SPECIFICATION Spec
CONSTANTS
  u1 = u1
  u2 = u2
  s1 = s1
  s2 = s2
  s3 = s3
  i1 = i1
  i2 = i2
  Users = {u1, u2}
  Sessions = {s1, s2, s3}
  SessionOf <- SessionOwner
  Installations = {i1, i2}
  Holder <- DeviceOwner
  Tokens = {t1, t2}
  Notes = {n1}
  Workers = {w1, w2}
  Limit = 2
  MaxAttempts = 2
  MaxCrashes = 1
SYMMETRY Symmetry
INVARIANTS
  PushInv
  SendsFenced
  SentAgainOnlyUnanswered
  SendsBounded
PROPERTIES
  TerminalIsFinal
  LogoutFencesRegistration
CHECK_DEADLOCK FALSE
