SPECIFICATION Spec
CONSTANTS
  c1 = c1  c2 = c2  c3 = c3  w1 = w1  w2 = w2
  quick = quick  endless = endless  stubborn = stubborn  broken = broken
  NULL = NULL
  Clients = {c1, c2, c3}
  Workers = {w1, w2}
  Worker <- WorkerOf
  Scripts = {quick, endless, stubborn, broken}
  Broken = {broken}
  Endless = {endless, stubborn}
  Catching = {stubborn}
  Rewriting = {quick}
  Requests <- Sent
  MaxCommands = 3
  MaxCloses = 1
INVARIANTS ScriptsConsistent
PROPERTIES WritesLogged Ends 
CHECK_DEADLOCK FALSE
