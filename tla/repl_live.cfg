SPECIFICATION FairSpec
CONSTANTS
  Slaves = {s1}
  Workers = {w1}
  MaxCmds = 2
  MaxPings = 0
  MaxCloses = 2
  MaxRestarts = 0
  MaxErrors = 1
  MaxSaveErrors = 1
  MasterKey = K
  OtherKey = R
  WalSize = 10
  CacheSize = 10
  SlaveCacheSize = 0
  SlaveWalSize = 10
  MAX_SEND_CACHE_SIZE = 2
  FirstOffset = 0
  masterauth = "set"
  JoinedWith <- Fresh
INVARIANTS StreamContinues
PROPERTIES CatchesUp
CHECK_DEADLOCK FALSE
