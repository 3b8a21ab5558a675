SPECIFICATION FairSpec
CONSTANTS
  t1 = t1
  t2 = t2
  t3 = t3
  th1 = th1
  th2 = th2
  Tasks = {t1, t2, t3}
  Stub = Stub
  NULL = NULL
  Poster <- TwoThreads
  Channels = {c1}
  PipeCapacity = 2
  MaxRemoves = 1
INVARIANTS NoUseAfterFree NoLostWakeup
PROPERTIES Reclaimed Implements
CHECK_DEADLOCK FALSE
