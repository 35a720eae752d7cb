SPECIFICATION DeliverySpec
CONSTANTS
  a1 = a1
  a2 = a2
  c1 = c1
  c2 = c2
  Sockets = {c1, c2}
  Member <- SocketMember
  MaxNews = 2
  u1 = u1
  u2 = u2
  s1 = s1
  s2 = s2
  s3 = s3
  i1 = i1
  i2 = i2
  Users = {u1}
  Sessions = {s1}
  SessionOf <- OneSession
  Installations = {i1}
  Holder <- OneDevice
  Tokens = {t1, t2}
  Notes = {n1}
  Workers = {w1, w2}
  Limit = 2
  MaxAttempts = 2
  MaxCrashes = 1
PROPERTIES
  Drained
  ToldOfNews
  GoneAreForgotten
CHECK_DEADLOCK FALSE
