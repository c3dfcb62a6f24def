SPECIFICATION BackupSpec
CONSTANTS
  Ids = {e1, e2, e3}
  Clients = {c1}
  MaxRev = 3
  Chunk = 2
  MaxSerial = 3
INVARIANTS ContiguousUntilRestore LoopIsShift SuccessRestoresAll
PROPERTIES RevGrows MergeKeepsNumbers
SYMMETRY Interchangeable
