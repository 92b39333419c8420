\* One thread closes the semaphore for the last time while another removes its
\* name.
SPECIFICATION Spec
CONSTANTS
  NULL = NULL
  Threads = {t1, t2}
  UserThreads = {}
  Names = {a}
  MaxSems = 1
  CountMax = 1
  Amounts = {1}
  NoMemory = {"vnode"}
CHECK_DEADLOCK FALSE
INVARIANT NeverPanics
