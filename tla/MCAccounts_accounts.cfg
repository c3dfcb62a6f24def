SPECIFICATION AccountsSpec
CONSTANTS
  u1 = u1
  u2 = u2
  t1 = t1
  t2 = t2
  p1 = p1
  p2 = p2
  s1 = s1
  s2 = s2
  timer = timer
  None = None
  Users = {u1, u2}
  Tokens = {t1}
  Plans = {p1, p2}
  Slots = {s1, s2, timer}
  Timers = {timer}
  BasePlan <- PeriodOf
  Serves = {"verify", "entitlement", "console", "apply", "recheck"}
  MaxStamp = 2
  JobLimit = 2
  Callers = {s1, s2}
  MaxCodes = 4
  MaxResets = 2
  Keys = {u1, u2}
  Posts = {s1, s2}
  MaxRecords = 3
SYMMETRY Interchangeable
INVARIANTS AckedFirst OneHolder CachedIsCurrent Earned OnePayout OneRecord CodeSpentOnce
