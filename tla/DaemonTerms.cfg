SPECIFICATION FairSpec
CONSTANTS
  Daemons = {d1, d2, d3}
  Clients = {c1, c2}
  NoDaemon = NoDaemon
  Jobs = {"work", "stop", "replace"}
  LongIdle = FALSE
  MaxFaults = 1
CHECK_DEADLOCK FALSE
INVARIANTS TypeOK SocketNamesTheHolder
PROPERTIES ElectsOneDaemon IdleExitSparesClients StopIsObeyed NobodyWaitsForever
