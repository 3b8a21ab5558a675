SPECIFICATION FairSpec
CONSTANTS
  c1 = c1
  c2 = c2
  c3 = c3
  ch = ch
  pat = pat
  Clients = {c1, c2, c3}
  Worker <- TwoWorkers
  NULL = NULL
  Transactors = {c1, c2}
  Subscribers = {c2}
  Keys = {k1}
  MaxQueued = 1
  MaxWrites = 2
  Channels = {ch}
  Patterns = {pat}
  Matching <- AllMatch
  MaxPublishes = 2
INVARIANTS TablesAgree IteratorsValid AnnouncedAborts NoStaleAbort ChangesReachWatchers
PROPERTY ExecEnds
CHECK_DEADLOCK FALSE
