SPECIFICATION Spec
CONSTANTS
  c1 = c1  c2 = c2  c3 = c3  w1 = w1  w2 = w2  k1 = k1  k2 = k2
  NULL = NULL
  NotAList = NotAList
  Clients = {c1, c2, c3}
  Worker <- WorkerOf
  Keys = {k1, k2}
  Sends <- SentBy
  Blanks = {2}
  MaxReads = 3
  MaxElements = 3
  MaxCloses = 1
INVARIANTS WaitersConsistent WaitersWoken Accounted RepliesOwed
PROPERTY Answered
CHECK_DEADLOCK FALSE
