SPECIFICATION Spec
CONSTANTS
  fileA = fileA
  fileB = fileB
  Files = {fileA, fileB}
  Target <- MCTarget
  Clients = {c1}
  Watcher = watcher
  NoThread = NoThread
  MaxEdits = 3
  MaxRequests = 1
  MaxFailures = 1
INVARIANTS TypeOK OwnTransaction ReferencesAccounted
PROPERTIES Revisioned
