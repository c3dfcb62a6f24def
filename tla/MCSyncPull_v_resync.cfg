SPECIFICATION PullSpec
CONSTANTS
  Tables = 1
  Ids = {1, 2}
  Home <- TwoInOne
  Parent <- NoChildren
  Limit = 1
  Retention = 1
  MaxTime = 5
  MaxBumps = 2
  MaxBreaks = 0
PROPERTY ResyncRecovers
