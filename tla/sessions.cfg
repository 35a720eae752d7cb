SPECIFICATION Spec
CONSTANTS
  u1 = u1
  Users = {u1}
  Sessions = {s1, s2}
  Owner <- OneUser
  Requests = {r1, r2}
  MaxGen = 2
  MaxPasswords = 2
  MaxCodes = 2
SYMMETRY Symmetry
INVARIANTS
  AuthInv
  SessionsFollowPassword
  ExchangedOnce
PROPERTIES
  LogoutEnds
  SuspendedGetNothing
  OnlyTheCodeReadIsSpent
