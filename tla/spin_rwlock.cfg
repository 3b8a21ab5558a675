SPECIFICATION FairLockSpec
CONSTANT Threads = {p, q, r}
INVARIANTS Exclusion
PROPERTY Admits
