SPECIFICATION Spec
CONSTANTS
  DBs = {0, 1}
  Strings = 5
  Workers = {w1, w2}
  k1 = k1
  k2 = k2
  f1 = f1
  f2 = f2
  blank = blank
  Blanks <- NoText
  Keys = {k1, k2}
  Found <- Latest
  Cmds <- Sets
  Stores <- OnlyStrings
  MaxCmds = 2
  MaxEvents = 0
  MaxDumped = 0
INVARIANTS ReplicaIsCopy
CHECK_DEADLOCK FALSE
