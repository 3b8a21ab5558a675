CONSTANTS
  max_file_size = 4
  ring_cache_size = 2
  SizeMax = 64
  MaxAppend = 5
  MaxWritten = 9
  ResetOffsets = {0, 3}
  MaxOpens = 3
  MaxWriteErrors = 1
SPECIFICATION Spec
INVARIANTS CacheHoldsTail ReplayExact LimitedReplayExact
