SPECIFICATION OverlapSpec
CONSTANTS
  u1 = u1
  r1 = r1
  r2 = r2
  NoUser = NoUser
  Users = {u1}
  Slots = {r1, r2}
  Ops <- OverlapOps
  MaxSessions = 3
  MaxTime = 4
  MaxPassword = 1
  Grace = 2
  SessionTtl = 2
  Life = 3
  PurgeAge = 1
  MaxHops = 5
INVARIANTS ChainWellFormed
PROPERTIES RevokedSoonRefused Answered
