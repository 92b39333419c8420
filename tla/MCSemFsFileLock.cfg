\* Two user's threads with one semaphore open: its File, and File.lk, is shared.
SPECIFICATION Spec
CONSTANTS
  NULL = NULL
  Threads = {t1, t2}
  UserThreads = {t1, t2}
  Names = {a}
  MaxSems = 1
  CountMax = 2
  Amounts = {1}
  NoMemory = {"vnode"}
CHECK_DEADLOCK FALSE
PROPERTIES
  WriteReturns
