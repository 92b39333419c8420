\* Three threads, two of them a user's, one name, room for two semaphores (one
\* may live on open without its name).  Counts wrap past 2, so V() can overflow.
\* Deadlock is not an error: every thread may be asleep in P().
SPECIFICATION Spec
CONSTANTS
  NULL = NULL
  Threads = {t1, t2, t3}
  UserThreads = {t2, t3}
  Names = {a}
  MaxSems = 2
  CountMax = 2
  Amounts = {1, 2}
  NoMemory = {"vnode", "dent"}
CHECK_DEADLOCK FALSE
INVARIANTS
  SemFsInv
  SemOutlivesUsers
PROPERTIES
  HoldersMoveCount
  FileLockGivenUp
