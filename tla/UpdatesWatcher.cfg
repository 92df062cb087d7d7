SPECIFICATION FairSpec
CONSTANTS
  fileA = fileA
  fileB = fileB
  Files = {fileA, fileB}
  Target <- MCTarget
  Clients = {}
  Watcher = watcher
  NoThread = NoThread
  MaxEdits = 3
  MaxRequests = 0
  MaxFailures = 0
PROPERTIES WatcherConverges
