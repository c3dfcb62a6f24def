SPECIFICATION BackupSpec
CONSTANTS
  Ids = {e1, e2}
  Clients = {}
  MaxRev = 4
  Chunk = 2
  MaxSerial = 4
INVARIANT CounterAhead
