SPECIFICATION Spec
CONSTANTS
  Slaves = {s1, s2}
  Workers = {w1}
  MaxCmds = 1
  MaxPings = 1
  MaxCloses = 0
  MaxRestarts = 1
  MaxErrors = 0
  MaxSaveErrors = 1
  MasterKey = K
  OtherKey = R
  WalSize = 2
  CacheSize = 1
  SlaveCacheSize = 2
  SlaveWalSize = 10
  MAX_SEND_CACHE_SIZE = 1
  FirstOffset = 0
  masterauth = "empty"
  JoinedWith <- Fresh
SYMMETRY Interchangeable
INVARIANTS SlavesConsistent NothingLost
CHECK_DEADLOCK FALSE
CONSTRAINT OneFailure
