SPECIFICATION Spec
CONSTANTS
  Connections = {k1, k2}
  Projects = {p1}
  Configs = {evictable, persistent}
  PersistentConfigs = {persistent}
  NoProject = NoProject
  NoConfig = NoConfig
  MaxContexts = 4
  MaxFiles = 8
  MaxFaults = 0
SYMMETRY Symmetry
INVARIANTS StampedEntryIsDetached
PROPERTIES EvictionHasCause
