SPECIFICATION Spec
CONSTANTS
  Paths <- MCPaths
  Targets <- MCTargets
  Bodies <- MCBodies
  MIN_COMPRESS_BYTES = 1
  HOT_CACHE_MAX_BYTES = 1
  SYMLINK_MAX_DEPTH = 1
  MaxInodes = 3
  MaxFds = 2
  MaxLen = 2
INVARIANTS NamesResolve HotIsSound
PROPERTIES NeverFightsWriters ImplementsByteStore
