\* Two readers asleep and two writes of one unit each, all by kernel threads.
SPECIFICATION Spec
CONSTANTS
  NULL = NULL
  Threads = {t1, t2, t3}
  UserThreads = {}
  Names = {a}
  MaxSems = 1
  CountMax = 2
  Amounts = {1}
  NoMemory = {"vnode"}
CHECK_DEADLOCK FALSE
INVARIANT UnitsHaveReaders
