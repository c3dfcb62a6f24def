SPECIFICATION PullSpec
CONSTANTS
  Tables = 2
  Ids = {1, 2, 3}
  Home <- TwoAndOne
  Parent <- OneChild
  Limit = 1
  Retention = 1
  MaxTime = 5
  MaxBumps = 1
  MaxBreaks = 1
INVARIANTS NothingSkipped NoGhosts
PROPERTY CatchesUp
