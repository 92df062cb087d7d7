\* Two connections, three contexts at a time, the state directory made twice.
SPECIFICATION FairSpec
CONSTANTS
  Connections = {k1, k2}
  Contexts = {x1, x2, x3}
  Loop = Loop
  None = None
  MaxDatabases = 2
  MaxPending = 1
INVARIANTS OneWatcherOfADatabase NoWatcherIsForgotten
PROPERTIES EntriesComeFree
