SPECIFICATION Spec
CONSTANTS
  Connections = {k1, k2}
  Projects = {p1}
  Configs = {evictable}
  PersistentConfigs = {}
  NoProject = NoProject
  NoConfig = NoConfig
  MaxContexts = 4
  MaxFiles = 8
  MaxFaults = 1
SYMMETRY Symmetry
INVARIANTS TypeOK LeaseExclusive OpenContextIsRegistered
PROPERTIES WriteKeepsLease
