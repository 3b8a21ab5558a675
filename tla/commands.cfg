SPECIFICATION Spec
CONSTANTS
  DBs = {0, 1}
  Strings = 5
  Workers = {w1}
  k1 = k1
  k2 = k2
  f1 = f1
  f2 = f2
  blank = blank
  Blanks <- NoText
  Keys = {k1, k2}
  Found <- Latest
  Cmds <- AllCommands
  Stores <- OneOfEach
  MaxCmds = 2
  MaxEvents = 1
  MaxDumped = 1
INVARIANTS ReplicaAgrees ChangesAnnounced SnapshotsSound
CHECK_DEADLOCK FALSE
